---------------------------- MODULE Spec2Model ----------------------------
(***************************************************************************)
(* Trace-context propagation of ddtrace/tracer/textmap.go: the chained     *)
(* propagator (Inject / Extract) and the Datadog, B3, B3 single header,    *)
(* W3C tracecontext and baggage formats it chains.                         *)
(*                                                                         *)
(* Strings are sequences of code points (Go runes / ASCII bytes), maps are *)
(* functions whose domain is a set of strings, unsigned 64-bit ids are     *)
(* naturals (the inputs drawn below stay far from 2^64).                   *)
(***************************************************************************)
EXTENDS Integers, Sequences, FiniteSets, TLC

VARIABLES
    chain,             \* p.injectors or p.extractors: sequence of format names
    onlyExtractFirst,  \* p.onlyExtractFirst
    carrier,           \* the carrier handed to Inject / Extract
    idx,               \* position of the range loop over the chain
    ctx,               \* Extract: the local ctx; Inject: spanCtx
    links,             \* Extract: the local links
    pendingBaggage,    \* Extract: the local pendingBaggage
    pc,                \* Extract: "loop"; Inject: "enter", "inject"; then "done"
                       \* (returned) or "panic" (runtime panic)
    ret,               \* the returned (context, error)
    calls,             \* the formats whose Inject / Extract has been invoked, in order
    orig,              \* the span context as it was before the operation started
    cfgMaxTagsLen,     \* cfg.MaxTagsHeaderLen of the Datadog propagator
    first,             \* when Inject and Extract are called in turn: the carrier
                       \* and the result of the call made first
    ps,                \* the propagation style read from the environment
    cfgB3,             \* cfg.B3
    procs,             \* the goroutines that are not running: for each its pc,
                       \* idx, carrier, ret and calls
    sm                 \* a stringMutator at work: the function set as sm.fn, the
                       \* string handed to Mutate first and the strings returned

vars == <<chain, onlyExtractFirst, carrier, idx, ctx, links, pendingBaggage,
          pc, ret, calls, orig, cfgMaxTagsLen, first, ps, cfgB3, procs,
          sm>>

----------------------------------------------------------------------------
(* Bounds of the model *)

MaxID == 2        \* trace ids and span ids are drawn from 1..MaxID
MaxChain == 3     \* the longest configured chain
MaxOrdered == 4   \* the largest map whose keys are visited in every order
Goroutines == 2   \* the goroutines that call Inject at the same time
MaxTags == 3      \* the tags of a map that is marshalled and unmarshalled
MaxLen == 3       \* the longest string handed to a sanitizer
MaxPriority == 2       \* the s entries of a tracestate run from -MaxPriority to MaxPriority

----------------------------------------------------------------------------
(* Strings *)

\* a value bound once and used by F
Let(x, F(_)) == F(x)

Max(a, b) == IF a > b THEN a ELSE b
Min(a, b) == IF a < b THEN a ELSE b

\* s[from:] and s[:to] of Go (0-based from, exclusive to)
Drop(s, n) == SubSeq(s, n + 1, Len(s))
Take(s, n) == SubSeq(s, 1, n)

\* strings.HasPrefix
HasPrefix(s, p) == Len(s) >= Len(p) /\ Take(s, Len(p)) = p

\* strings.TrimPrefix
TrimPrefix(s, p) == IF HasPrefix(s, p) THEN Drop(s, Len(p)) ELSE s

\* strings.ToLower on ASCII
LowerRune(r) == IF r >= 65 /\ r <= 90 THEN r + 32 ELSE r
ToLower(s) == [i \in 1..Len(s) |-> LowerRune(s[i])]

\* strings.TrimLeft(s, cutset) and strings.Trim(s, cutset); cutset is a set of
\* runes: s from its first rune outside the cutset, s up to its last one
TrimLeft(s, cut) ==
    IF \A i \in 1..Len(s) : s[i] \in cut THEN <<>>
    ELSE Drop(s, (CHOOSE i \in 1..Len(s) :
                     s[i] \notin cut /\ \A j \in 1..(i - 1) : s[j] \in cut) - 1)

TrimRight(s, cut) ==
    IF \A i \in 1..Len(s) : s[i] \in cut THEN <<>>
    ELSE Take(s, CHOOSE i \in 1..Len(s) :
                    s[i] \notin cut /\ \A j \in (i + 1)..Len(s) : s[j] \in cut)

Trim(s, cut) == TrimRight(TrimLeft(s, cut), cut)

\* the white space of strings.TrimSpace within ASCII: \t \n \v \f \r and space
SpaceRunes == {9, 10, 11, 12, 13, 32}
TrimSpace(s) == Trim(s, SpaceRunes)

\* the positions of rune r in s, in increasing order
Indexes(s, r) == SelectSeq([i \in 1..Len(s) |-> i], LAMBDA i : s[i] = r)

\* index of the first occurrence of rune r in s, 0 when absent
IndexRune(s, r) == Let(Indexes(s, r), LAMBDA at : IF at = <<>> THEN 0 ELSE at[1])

\* s cut at the positions at: the pieces between them
PiecesAt(s, at) ==
    [k \in 1..(Len(at) + 1) |->
        SubSeq(s, IF k = 1 THEN 1 ELSE at[k - 1] + 1,
                  IF k > Len(at) THEN Len(s) ELSE at[k] - 1)]

\* strings.Split(s, sep) for a one-rune separator: always at least one piece
Split(s, sep) == PiecesAt(s, Indexes(s, sep))

\* strings.SplitN(s, sep, n) for n >= 1: at most n pieces, the last holds the rest
SplitN(s, sep, n) ==
    Let(Indexes(s, sep), LAMBDA at : PiecesAt(s, Take(at, Min(Len(at), n - 1))))

\* strings.Cut(s, sep) for a one-rune separator
Cut(s, sep) ==
    Let(IndexRune(s, sep), LAMBDA i :
        IF i = 0 THEN [before |-> s, after |-> <<>>, found |-> FALSE]
        ELSE [before |-> Take(s, i - 1), after |-> Drop(s, i), found |-> TRUE])

\* strings.Join(parts, sep)
RECURSIVE Join(_, _)
Join(parts, sep) ==
    IF parts = <<>> THEN <<>>
    ELSE IF Len(parts) = 1 THEN parts[1]
    ELSE parts[1] \o sep \o Join(Tail(parts), sep)

\* strings.ReplaceAll(s, old, new) for one-rune old and new
ReplaceRune(s, old, new) == [i \in 1..Len(s) |-> IF s[i] = old THEN new ELSE s[i]]

\* n copies of rune r
Repeat(r, n) == [i \in 1..n |-> r]

----------------------------------------------------------------------------
(* Numbers: strconv *)

DigitRune(d) == IF d < 10 THEN 48 + d ELSE 87 + d     \* '0'..'9', 'a'..'f'

\* the value of a digit rune in the given base, -1 when it is not one
DigitVal(r, base) ==
    LET v == IF r >= 48 /\ r <= 57 THEN r - 48
             ELSE IF r >= 97 /\ r <= 122 THEN r - 87
             ELSE IF r >= 65 /\ r <= 90 THEN r - 55
             ELSE -1
    IN IF v >= 0 /\ v < base THEN v ELSE -1

\* strconv.FormatUint(n, base)
RECURSIVE FormatUint(_, _)
FormatUint(n, base) ==
    IF n < base THEN <<DigitRune(n)>>
    ELSE FormatUint(n \div base, base) \o <<DigitRune(n % base)>>

\* fmt.Sprintf("%0<w>x", n)
PadHex(n, w) ==
    LET d == FormatUint(n, 16)
    IN Repeat(48, Max(0, w - Len(d))) \o d

\* strconv.Itoa
Itoa(n) == IF n < 0 THEN <<45>> \o FormatUint(-n, 10) ELSE FormatUint(n, 10)

RECURSIVE DigitsValue(_, _, _)
DigitsValue(s, base, acc) ==
    IF s = <<>> THEN acc
    ELSE DigitsValue(Tail(s), base, acc * base + DigitVal(Head(s), base))

\* strconv.ParseUint(s, base, 64): no sign, no prefix, at least one digit
ParseUint(s, base) ==
    IF s # <<>> /\ \A i \in 1..Len(s) : DigitVal(s[i], base) >= 0
    THEN [ok |-> TRUE, v |-> DigitsValue(s, base, 0)]
    ELSE [ok |-> FALSE, v |-> 0]

\* strconv.Atoi: an optional sign, then decimal digits
Atoi(s) ==
    LET neg == s # <<>> /\ Head(s) = 45
        body == IF s # <<>> /\ Head(s) \in {43, 45} THEN Tail(s) ELSE s
        u == ParseUint(body, 10)
    IN IF u.ok THEN [ok |-> TRUE, v |-> IF neg THEN -u.v ELSE u.v]
       ELSE [ok |-> FALSE, v |-> 0]

----------------------------------------------------------------------------
(* Header names and keys *)

DefaultBaggageHeaderPrefix == <<111,116,45,98,97,103,103,97,103,101,45>>  \* "ot-baggage-"
DefaultTraceIDHeader == <<120,45,100,97,116,97,100,111,103,45,116,114,97,99,101,45,105,100>>  \* "x-datadog-trace-id"
DefaultParentIDHeader == <<120,45,100,97,116,97,100,111,103,45,112,97,114,101,110,116,45,105,100>>  \* "x-datadog-parent-id"
DefaultPriorityHeader == <<120,45,100,97,116,97,100,111,103,45,115,97,109,112,108,105,110,103,45,112,114,105,111,114,105,116,121>>  \* "x-datadog-sampling-priority"
DefaultBaggageHeader == <<98,97,103,103,97,103,101>>  \* "baggage"
originHeader == <<120,45,100,97,116,97,100,111,103,45,111,114,105,103,105,110>>  \* "x-datadog-origin"
traceTagsHeader == <<120,45,100,97,116,97,100,111,103,45,116,97,103,115>>  \* "x-datadog-tags"
b3TraceIDHeader == <<120,45,98,51,45,116,114,97,99,101,105,100>>  \* "x-b3-traceid"
b3SpanIDHeader == <<120,45,98,51,45,115,112,97,110,105,100>>  \* "x-b3-spanid"
b3SampledHeader == <<120,45,98,51,45,115,97,109,112,108,101,100>>  \* "x-b3-sampled"
b3SingleHeader == <<98,51>>  \* "b3"
traceparentHeader == <<116,114,97,99,101,112,97,114,101,110,116>>  \* "traceparent"
tracestateHeader == <<116,114,97,99,101,115,116,97,116,101>>  \* "tracestate"
keyTraceID128 == <<95,100,100,46,112,46,116,105,100>>  \* "_dd.p.tid"
keyDecisionMaker == <<95,100,100,46,112,46,100,109>>  \* "_dd.p.dm"
ddMemberPrefix == <<100,100,61>>  \* "dd="
ddTagPrefix == <<95,100,100,46,112,46>>  \* "_dd.p."
synthetics == <<115,121,110,116,104,101,116,105,99,115>>  \* "synthetics"

propagationExtractMaxSize == 512

\* the errors of the package
ErrNone == "nil"
ErrInvalidCarrier == "invalid_carrier"
ErrInvalidSpanContext == "invalid_span_context"
ErrSpanContextNotFound == "not_found"
ErrSpanContextCorrupted == "corrupted"

----------------------------------------------------------------------------
(* Maps (map[string]string) *)

EmptyMap == <<>>

MapSet(m, k, v) == [x \in (DOMAIN m) \cup {k} |-> IF x = k THEN v ELSE m[x]]
MapDel(m, k) == [x \in (DOMAIN m) \ {k} |-> m[x]]
MapGet(m, k) == IF k \in DOMAIN m THEN m[k] ELSE <<>>

\* for k, v := range src { dst[k] = v }
MapCopy(dst, src) ==
    [x \in (DOMAIN dst) \cup (DOMAIN src) |-> IF x \in DOMAIN src THEN src[x] ELSE dst[x]]

\* a < b for strings: the shorter first, then by the first rune that differs
StrLess(a, b) ==
    \/ Len(a) < Len(b)
    \/ /\ Len(a) = Len(b)
       /\ \E i \in 1..Len(a) : a[i] < b[i] /\ \A j \in 1..(i - 1) : a[j] = b[j]

\* the strings of S in increasing order
SortedKeys(S) ==
    [i \in 1..Cardinality(S) |->
        CHOOSE k \in S : Cardinality({j \in S : StrLess(j, k)}) = i - 1]

\* o started at its position r + 1 and continued from its beginning
Rotate(o, r) == [i \in 1..Len(o) |-> o[((i + r - 1) % Len(o)) + 1]]

\* the orders in which a range loop may visit a map's keys: every order of up
\* to MaxOrdered keys; of the orders of a larger map the increasing one, the
\* decreasing one and the increasing one started at its second and last key
KeyOrders(S) ==
    IF Cardinality(S) <= MaxOrdered
    THEN {o \in [1..Cardinality(S) -> S] :
             \A i, j \in 1..Cardinality(S) : i # j => o[i] # o[j]}
    ELSE Let(SortedKeys(S), LAMBDA o :
             {o, Rotate(o, 1), Rotate(o, Len(o) - 1),
              [i \in 1..Len(o) |-> o[Len(o) + 1 - i]]})

----------------------------------------------------------------------------
(* traceID: 128 bits as two 64-bit halves *)

ZeroTraceID == [upper |-> 0, lower |-> 0]

Empty(t) == t.upper = 0 /\ t.lower = 0
HasUpper(t) == t.upper # 0
HexEncoded(t) == PadHex(t.upper, 16) \o PadHex(t.lower, 16)
UpperHex(t) == PadHex(t.upper, 16)

\* traceID.SetUpperFromHex: the parse error leaves the id unchanged
SetUpperFromHex(t, s) ==
    LET u == ParseUint(s, 16)
    IN IF u.ok THEN [ok |-> TRUE, t |-> [t EXCEPT !.upper = u.v]]
       ELSE [ok |-> FALSE, t |-> t]

----------------------------------------------------------------------------
(* SpanContext and its trace *)

NoPriority == [ok |-> FALSE, p |-> 0]

\* var ctx SpanContext
ZeroCtx ==
    [nil |-> FALSE,
     traceID |-> ZeroTraceID,
     spanID |-> 0,
     origin |-> <<>>,
     baggage |-> EmptyMap,
     baggageOnly |-> FALSE,
     reparentID |-> <<>>,
     isRemote |-> FALSE,
     updated |-> FALSE,
     spanLinks |-> <<>>,
     hasTrace |-> FALSE,       \* ctx.trace != nil
     priority |-> NoPriority,  \* trace.priority (a pointer, nil when unset)
     ptags |-> EmptyMap,       \* trace.propagatingTags
     properr |-> <<>>,         \* trace.tags["_dd.propagation_error"]
     root |-> FALSE]           \* trace.root != nil

\* a nil *SpanContext
NilCtx == [ZeroCtx EXCEPT !.nil = TRUE]

\* SpanContext.TraceID(): the 32 hex digits, all zeros for a nil receiver
TraceID(c) == IF c.nil THEN HexEncoded(ZeroTraceID) ELSE HexEncoded(c.traceID)
SpanID(c) == IF c.nil THEN 0 ELSE c.spanID
TraceIDLower(c) == IF c.nil THEN 0 ELSE c.traceID.lower
TraceIDUpper(c) == IF c.nil THEN 0 ELSE c.traceID.upper

\* SpanContext.SamplingPriority()
SamplingPriority(c) == IF c.nil \/ ~c.hasTrace THEN NoPriority ELSE c.priority

\* trace.propagatingTag(k): "" when the trace is nil or the tag is unset
propagatingTag(c, k) == IF c.hasTrace THEN MapGet(c.ptags, k) ELSE <<>>
hasPropagatingTag(c, k) == c.hasTrace /\ k \in DOMAIN c.ptags
propagatingTagsLen(c) == IF c.hasTrace THEN Cardinality(DOMAIN c.ptags) ELSE 0

\* setPropagatingTag: creates the trace when there is none
setPropagatingTag(c, k, v) ==
    [c EXCEPT !.hasTrace = TRUE, !.ptags = MapSet(c.ptags, k, v)]

unsetPropagatingTag(c, k) == [c EXCEPT !.ptags = MapDel(c.ptags, k)]

\* SpanContext.setSamplingPriority(p, sampler): creates the trace when there is
\* none; the Default sampler records itself as the decision maker
setSamplingPriority(c, p, sampler) ==
    LET c1 == [c EXCEPT !.hasTrace = TRUE, !.priority = [ok |-> TRUE, p |-> p]]
    IN IF sampler = "Default" /\ p > 0
       THEN [c1 EXCEPT !.ptags = MapSet(c.ptags, keyDecisionMaker, <<45, 48>>)]  \* "-0"
       ELSE c1

setBaggageItem(c, k, v) == [c EXCEPT !.baggage = MapSet(c.baggage, k, v)]

\* spanIDHexEncoded(id, 16)
spanIDHexEncoded(id) == PadHex(id, 16)

----------------------------------------------------------------------------
(* Carriers: a TextMapCarrier (valid, with its map h) or a value of another type *)

TextMap(h) == [valid |-> TRUE, h |-> h]
NotACarrier == [valid |-> FALSE, h |-> EmptyMap]

\* ForeachKey hands every key to the handler, which lower-cases it. The carriers
\* drawn below hold at most one key per lower-cased name, so the visiting order
\* of the range loop does not show in what the handlers below compute.
HasHeader(h, name) == \E k \in DOMAIN h : ToLower(k) = name
Header(h, name) == h[CHOOSE k \in DOMAIN h : ToLower(k) = name]

\* the headers whose lower-cased name starts with prefix, keyed by the rest of
\* the name
PrefixedHeaders(h, prefix) ==
    [n \in {TrimPrefix(ToLower(k), prefix) : k \in {x \in DOMAIN h : HasPrefix(ToLower(x), prefix)}} |->
        h[CHOOSE k \in DOMAIN h : HasPrefix(ToLower(k), prefix) /\ TrimPrefix(ToLower(k), prefix) = n]]

\* the result pair of an Extract
Found(c) == [ctx |-> c, err |-> ErrNone]
Failed(e) == [ctx |-> NilCtx, err |-> e]

----------------------------------------------------------------------------
(* Hex ids *)

asciiLowerA == 97
asciiLowerF == 102
asciiZero == 48
asciiNine == 57

isValidID(id) ==
    /\ Len(id) # 0
    /\ \A i \in 1..Len(id) :
          ~(id[i] < asciiZero \/ id[i] > asciiLowerF
              \/ (id[i] > asciiNine /\ id[i] < asciiLowerA))

\* validateTID: TRUE when there is no error
validateTID(tid) == Len(tid) = 16 /\ isValidID(tid)

\* extractTraceID128: the traceID it leaves on ctx and whether it returned nil
extractTraceID128(t, v0) ==
    Let(TrimLeft(IF Len(v0) > 32 THEN Drop(v0, Len(v0) - 32) ELSE v0, {48}), LAMBDA v :
    IF Len(v) <= 16
    THEN Let(ParseUint(v, 16), LAMBDA tid :
             [ok |-> tid.ok, t |-> [t EXCEPT !.lower = tid.v]])
    ELSE Let(Take(v, Len(v) - 16), LAMBDA idUpper :
         Let(ParseUint(Drop(v, Len(idUpper)), 16), LAMBDA l :
             [ok |-> l.ok, t |-> [SetUpperFromHex(t, idUpper).t EXCEPT !.lower = l.v]])))

----------------------------------------------------------------------------
(* x-datadog-tags *)

\* parseUint64 of the Datadog ids: a base-10 unsigned number (the ids drawn
\* below carry no sign)
parseUint64(s) == ParseUint(s, 10)

\* isValidPropagatableTag: TRUE when there is no error
isValidPropagatableTag(k, v) ==
    LET bad(r) == r = 44 \/ r = 61 \/ r < 32 \/ r > 126
    IN /\ \A i \in 1..Len(k) : ~bad(k[i])
       /\ \A i \in 1..Len(v) : ~bad(v[i])

\* parsePropagatableTraceTags: strict k=v pairs separated by ','
parsePropagatableTraceTags(v) ==
    IF v = <<>> THEN [ok |-> TRUE, tags |-> EmptyMap]
    ELSE LET pieces == Split(v, 44)
             kv(i) == Cut(pieces[i], 61)
             good == \A i \in 1..Len(pieces) :
                        kv(i).found /\ kv(i).before # <<>> /\ kv(i).after # <<>>
             keys == {kv(i).before : i \in 1..Len(pieces)}
             \* a later pair overwrites an earlier one of the same key
             last(k) == CHOOSE i \in 1..Len(pieces) :
                           /\ kv(i).before = k
                           /\ \A j \in 1..Len(pieces) : kv(j).before = k => j <= i
         IN IF good THEN [ok |-> TRUE, tags |-> [k \in keys |-> kv(last(k)).after]]
            ELSE [ok |-> FALSE, tags |-> EmptyMap]

errExtractMaxSize == <<101,120,116,114,97,99,116,95,109,97,120,95,115,105,122,101>>  \* "extract_max_size"
errDecodingError == <<100,101,99,111,100,105,110,103,95,101,114,114,111,114>>  \* "decoding_error"
errEncodingError == <<101,110,99,111,100,105,110,103,95,101,114,114,111,114>>  \* "encoding_error"
errInjectMaxSize == <<105,110,106,101,99,116,95,109,97,120,95,115,105,122,101>>  \* "inject_max_size"

\* unmarshalPropagatingTags with the tags of a header over the size limit
\* stored all the same
unmarshalPropagatingTagsKeepsOversize(c, v) ==
    Let(parsePropagatableTraceTags(v), LAMBDA parsed :
    IF Len(v) > propagationExtractMaxSize
    THEN [c EXCEPT !.hasTrace = TRUE, !.properr = errExtractMaxSize, !.ptags = parsed.tags]
    ELSE IF ~parsed.ok
    THEN [c EXCEPT !.hasTrace = TRUE, !.properr = errDecodingError, !.ptags = EmptyMap]
    ELSE [c EXCEPT !.hasTrace = TRUE, !.ptags = parsed.tags])

unmarshalPropagatingTags(c, v) ==
    Let(parsePropagatableTraceTags(v), LAMBDA parsed :
    IF Len(v) > propagationExtractMaxSize
    THEN [c EXCEPT !.hasTrace = TRUE, !.properr = errExtractMaxSize]
    ELSE IF ~parsed.ok
    THEN [c EXCEPT !.hasTrace = TRUE, !.properr = errDecodingError, !.ptags = EmptyMap]
    ELSE [c EXCEPT !.hasTrace = TRUE, !.ptags = parsed.tags])

\* marshalFrom with the tags of the keys tracestate and traceparent marshalled
\* like the others
RECURSIVE marshalFromAll(_, _, _, _, _, _)
marshalFromAll(tags, keys, i, sb, properr, maxLen) ==
    IF i > Len(keys) THEN [s |-> sb, properr |-> properr]
    ELSE LET k == keys[i]
             v == tags[k]
         IN IF ~isValidPropagatableTag(k, v)
            THEN marshalFromAll(tags, keys, i + 1, sb, errEncodingError, maxLen)
            ELSE IF Len(sb) + Len(k) + Len(v) > maxLen
            THEN [s |-> <<>>, properr |-> errInjectMaxSize]
            ELSE marshalFromAll(tags, keys, i + 1,
                                (IF Len(sb) > 0 THEN sb \o <<44>> ELSE sb) \o k \o <<61>> \o v,
                                properr, maxLen)

\* one step of the iteratePropagatingTags callback of marshalPropagatingTags on
\* the tags keys[i..], with the builder sb and the error noted so far
RECURSIVE marshalFrom(_, _, _, _, _, _)
marshalFrom(tags, keys, i, sb, properr, maxLen) ==
    IF i > Len(keys) THEN [s |-> sb, properr |-> properr]
    ELSE LET k == keys[i]
             v == tags[k]
         IN IF k = tracestateHeader \/ k = traceparentHeader
            THEN marshalFrom(tags, keys, i + 1, sb, properr, maxLen)
            ELSE IF ~isValidPropagatableTag(k, v)
            THEN marshalFrom(tags, keys, i + 1, sb, errEncodingError, maxLen)
            ELSE IF Len(sb) + Len(k) + Len(v) > maxLen
            THEN [s |-> <<>>, properr |-> errInjectMaxSize]
            ELSE marshalFrom(tags, keys, i + 1,
                             (IF Len(sb) > 0 THEN sb \o <<44>> ELSE sb) \o k \o <<61>> \o v,
                             properr, maxLen)

\* propagator.marshalPropagatingTags, the tags visited in the order keys:
\* the header value and the context with the error tag set
marshalPropagatingTags(c, keys, maxLen) ==
    IF ~c.hasTrace THEN [s |-> <<>>, ctx |-> c]
    ELSE LET r == marshalFrom(c.ptags, keys, 1, <<>>, <<>>, maxLen)
         IN [s |-> r.s,
             ctx |-> IF r.properr # <<>> THEN [c EXCEPT !.properr = r.properr] ELSE c]

----------------------------------------------------------------------------
(* The Datadog format (propagator), with the default header names *)

\* the handler of extractTextMap applied to every header, then the checks
\* that follow the loop
ddExtractTextMap(h) ==
    Let(IF HasHeader(h, DefaultTraceIDHeader)
        THEN parseUint64(Header(h, DefaultTraceIDHeader))
        ELSE [ok |-> TRUE, v |-> 0], LAMBDA tid :
    Let(IF HasHeader(h, DefaultParentIDHeader)
        THEN parseUint64(Header(h, DefaultParentIDHeader))
        ELSE [ok |-> TRUE, v |-> 0], LAMBDA pid :
    Let(IF HasHeader(h, DefaultPriorityHeader)
        THEN Atoi(Header(h, DefaultPriorityHeader))
        ELSE [ok |-> TRUE, v |-> 0], LAMBDA prio :
    Let([ZeroCtx EXCEPT !.traceID.lower = tid.v, !.spanID = pid.v], LAMBDA c0 :
    Let(IF HasHeader(h, DefaultPriorityHeader)
        THEN setSamplingPriority(c0, prio.v, "Unknown") ELSE c0, LAMBDA c1 :
    Let(IF HasHeader(h, originHeader)
        THEN [c1 EXCEPT !.origin = Header(h, originHeader)] ELSE c1, LAMBDA c2 :
    Let(IF HasHeader(h, traceTagsHeader)
        THEN unmarshalPropagatingTags(c2, Header(h, traceTagsHeader)) ELSE c2, LAMBDA c3 :
    Let([c3 EXCEPT !.baggage = PrefixedHeaders(h, DefaultBaggageHeaderPrefix)], LAMBDA c4 :
    \* the 128-bit half carried by _dd.p.tid
    Let(propagatingTag(c4, keyTraceID128), LAMBDA t128 :
    Let(SetUpperFromHex(c4.traceID, t128), LAMBDA up :
    Let(IF ~c4.hasTrace THEN c4
        ELSE IF ~validateTID(t128) THEN unsetPropagatingTag(c4, keyTraceID128)
        ELSE IF ~up.ok THEN unsetPropagatingTag(c4, keyTraceID128)
        ELSE [c4 EXCEPT !.traceID = up.t], LAMBDA c5 :
    IF ~tid.ok \/ ~pid.ok \/ ~prio.ok THEN Failed(ErrSpanContextCorrupted)
    ELSE IF Empty(c5.traceID) \/ (c5.spanID = 0 /\ c5.origin # synthetics)
    THEN Failed(ErrSpanContextNotFound)
    ELSE Found(c5))))))))))))

\* propagator.Extract
ddExtract(car) ==
    IF car.valid THEN ddExtractTextMap(car.h) ELSE Failed(ErrInvalidCarrier)

\* writer.Set for every item of a map, the key prefixed
SetAll(h, prefix, m) ==
    [x \in (DOMAIN h) \cup {prefix \o k : k \in DOMAIN m} |->
        IF \E k \in DOMAIN m : prefix \o k = x
        THEN m[CHOOSE k \in DOMAIN m : prefix \o k = x]
        ELSE h[x]]

\* injectTraceID128 with the tag left as it is when the trace id has no
\* upper half
injectTraceID128KeepsTag(c) ==
    IF HasUpper(c.traceID)
    THEN setPropagatingTag(c, keyTraceID128, UpperHex(c.traceID))
    ELSE c

\* the start of both injectTextMap: the tag of the upper half of the trace id
\* is set, or removed when the trace id has no upper half
injectTraceID128(c) ==
    IF HasUpper(c.traceID)
    THEN setPropagatingTag(c, keyTraceID128, UpperHex(c.traceID))
    ELSE IF c.hasTrace THEN unsetPropagatingTag(c, keyTraceID128)
    ELSE c

\* propagator.injectTextMap from the first writer.Set on
ddWriteHeaders(c1, h, keys, maxTagsHeaderLen) ==
    LET h1 == MapSet(h, DefaultTraceIDHeader, FormatUint(c1.traceID.lower, 10))
        h2 == MapSet(h1, DefaultParentIDHeader, FormatUint(c1.spanID, 10))
        sp == SamplingPriority(c1)
        h3 == IF sp.ok THEN MapSet(h2, DefaultPriorityHeader, Itoa(sp.p)) ELSE h2
        h4 == IF c1.origin # <<>> THEN MapSet(h3, originHeader, c1.origin) ELSE h3
        h5 == SetAll(h4, DefaultBaggageHeaderPrefix, c1.baggage)
        m == marshalPropagatingTags(c1, SelectSeq(keys, LAMBDA k : k \in DOMAIN c1.ptags),
                                    maxTagsHeaderLen)
    IN IF maxTagsHeaderLen <= 0 THEN [err |-> ErrNone, h |-> h5, ctx |-> c1]
       ELSE [err |-> ErrNone,
             h |-> IF Len(m.s) > 0 THEN MapSet(h5, traceTagsHeader, m.s) ELSE h5,
             ctx |-> m.ctx]

\* propagator.injectTextMap; keys is the order in which the propagating tags
\* are visited. The result: the error, the carrier map and the context, which
\* Inject changes (_dd.p.tid, the error tag).
ddInjectTextMap(c, h, keys, maxTagsHeaderLen) ==
    IF Empty(c.traceID) \/ c.spanID = 0
    THEN [err |-> ErrInvalidSpanContext, h |-> h, ctx |-> c]
    ELSE ddWriteHeaders(injectTraceID128(c), h, keys, maxTagsHeaderLen)

\* propagator.Inject
ddInject(c, car, keys, maxTagsHeaderLen) ==
    IF c.nil THEN [err |-> ErrInvalidSpanContext, h |-> car.h, ctx |-> c]
    ELSE IF ~car.valid THEN [err |-> ErrInvalidCarrier, h |-> car.h, ctx |-> c]
    ELSE ddInjectTextMap(c, car.h, keys, maxTagsHeaderLen)

----------------------------------------------------------------------------
(* B3 multi header (propagatorB3) and B3 single header *)

PriorityAutoKeep == 1
PriorityAutoReject == 0

b3ExtractTextMap(h) ==
    Let(IF HasHeader(h, b3TraceIDHeader)
        THEN extractTraceID128(ZeroTraceID, Header(h, b3TraceIDHeader))
        ELSE [ok |-> TRUE, t |-> ZeroTraceID], LAMBDA tid :
    Let(IF HasHeader(h, b3SpanIDHeader)
        THEN ParseUint(Header(h, b3SpanIDHeader), 16)
        ELSE [ok |-> TRUE, v |-> 0], LAMBDA sid :
    Let(IF HasHeader(h, b3SampledHeader)
        THEN Atoi(Header(h, b3SampledHeader))
        ELSE [ok |-> TRUE, v |-> 0], LAMBDA prio :
    \* an error of extractTraceID128 is dropped (the handler returns nil)
    Let([ZeroCtx EXCEPT !.traceID = tid.t, !.spanID = sid.v], LAMBDA c0 :
    IF ~sid.ok \/ ~prio.ok THEN Failed(ErrSpanContextCorrupted)
    ELSE IF Empty(c0.traceID) \/ c0.spanID = 0 THEN Failed(ErrSpanContextNotFound)
    ELSE IF HasHeader(h, b3SampledHeader)
    THEN Found(setSamplingPriority(c0, prio.v, "Unknown"))
    ELSE Found(c0)))))

b3Extract(car) ==
    IF car.valid THEN b3ExtractTextMap(car.h) ELSE Failed(ErrInvalidCarrier)

\* the trace id written with its lower 64 bits only
b3TraceIDHexLowerOnly(c) == PadHex(c.traceID.lower, 16)

\* the trace id as the B3 formats write it: 16 hex digits, 32 with an upper half
b3TraceIDHex(c) ==
    IF ~HasUpper(c.traceID) THEN PadHex(c.traceID.lower, 16) ELSE TraceID(c)

b3InjectTextMap(c, h) ==
    IF c.nil \/ Empty(c.traceID) \/ c.spanID = 0
    THEN [err |-> ErrInvalidSpanContext, h |-> h, ctx |-> c]
    ELSE
    LET h1 == MapSet(h, b3TraceIDHeader, b3TraceIDHex(c))
        h2 == MapSet(h1, b3SpanIDHeader, PadHex(c.spanID, 16))
        sp == SamplingPriority(c)
        h3 == IF ~sp.ok THEN h2
              ELSE IF sp.p >= PriorityAutoKeep THEN MapSet(h2, b3SampledHeader, <<49>>)
              ELSE MapSet(h2, b3SampledHeader, <<48>>)
    IN [err |-> ErrNone, h |-> h3, ctx |-> c]

b3Inject(c, car) ==
    IF c.nil THEN [err |-> ErrInvalidSpanContext, h |-> car.h, ctx |-> c]
    ELSE IF ~car.valid THEN [err |-> ErrInvalidCarrier, h |-> car.h, ctx |-> c]
    ELSE b3InjectTextMap(c, car.h)

b3SingleExtractTextMap(h) ==
    IF ~HasHeader(h, b3SingleHeader) THEN Failed(ErrSpanContextNotFound)
    ELSE
    Let(Split(Header(h, b3SingleHeader), 45), LAMBDA b3Parts :
    IF Len(b3Parts) < 2 THEN Failed(ErrSpanContextCorrupted)
    ELSE
    Let(extractTraceID128(ZeroTraceID, b3Parts[1]), LAMBDA tid :
    Let(ParseUint(b3Parts[2], 16), LAMBDA sid :
    Let([ZeroCtx EXCEPT !.traceID = tid.t, !.spanID = sid.v], LAMBDA c0 :
    Let(IF Len(b3Parts) >= 3 THEN b3Parts[3] ELSE <<>>, LAMBDA flag :
    IF ~tid.ok \/ ~sid.ok THEN Failed(ErrSpanContextCorrupted)
    ELSE IF ~(flag \in {<<>>, <<49>>, <<100>>, <<48>>})      \* "", "1", "d", "0"
    THEN Failed(ErrSpanContextCorrupted)
    ELSE IF Empty(c0.traceID) \/ c0.spanID = 0 THEN Failed(ErrSpanContextNotFound)
    ELSE IF flag = <<>> THEN Found(c0)
    ELSE IF flag = <<48>> THEN Found(setSamplingPriority(c0, PriorityAutoReject, "Unknown"))
    ELSE Found(setSamplingPriority(c0, PriorityAutoKeep, "Unknown")))))))

b3SingleExtract(car) ==
    IF car.valid THEN b3SingleExtractTextMap(car.h) ELSE Failed(ErrInvalidCarrier)

b3SingleInjectTextMap(c, h) ==
    IF c.nil \/ Empty(c.traceID) \/ c.spanID = 0
    THEN [err |-> ErrInvalidSpanContext, h |-> h, ctx |-> c]
    ELSE
    LET sp == SamplingPriority(c)
        sb == b3TraceIDHex(c) \o <<45>> \o PadHex(c.spanID, 16)
                \o (IF ~sp.ok THEN <<>>
                    ELSE IF sp.p >= PriorityAutoKeep THEN <<45, 49>>     \* "-1"
                    ELSE <<45, 48>>)                                     \* "-0"
    IN [err |-> ErrNone, h |-> MapSet(h, b3SingleHeader, sb), ctx |-> c]

b3SingleInject(c, car) ==
    IF c.nil THEN [err |-> ErrInvalidSpanContext, h |-> car.h, ctx |-> c]
    ELSE IF ~car.valid THEN [err |-> ErrInvalidCarrier, h |-> car.h, ctx |-> c]
    ELSE b3SingleInjectTextMap(c, car.h)

----------------------------------------------------------------------------
(* The string mutator and the three sanitizers of the dd= list-member *)

\* each fn gives the replacement rune and whether a run of such runes collapses
\* keyDisallowedFn with the comma replaced by the equals sign
keyDisallowedFnToEquals(r) ==
    IF r = 44 THEN [v |-> 61, drop |-> FALSE]
    ELSE IF r = 61 THEN [v |-> 95, drop |-> FALSE]
    ELSE IF r < 32 \/ r > 126 THEN [v |-> 95, drop |-> TRUE]
    ELSE [v |-> r, drop |-> FALSE]

keyDisallowedFn(r) ==
    IF r = 44 \/ r = 61 THEN [v |-> 95, drop |-> FALSE]
    ELSE IF r < 32 \/ r > 126 THEN [v |-> 95, drop |-> TRUE]
    ELSE [v |-> r, drop |-> FALSE]

valueDisallowedFn(r) ==
    IF r = 61 THEN [v |-> 126, drop |-> FALSE]
    ELSE IF r = 44 \/ r = 126 \/ r = 59 THEN [v |-> 95, drop |-> FALSE]
    ELSE IF r < 32 \/ r > 126 THEN [v |-> 95, drop |-> TRUE]
    ELSE [v |-> r, drop |-> FALSE]

originDisallowedFn(r) ==
    IF r = 61 THEN [v |-> 126, drop |-> FALSE]
    ELSE IF r = 44 \/ r = 126 \/ r = 59 THEN [v |-> 95, drop |-> FALSE]
    ELSE IF r < 33 \/ r > 126 THEN [v |-> 95, drop |-> TRUE]
    ELSE [v |-> r, drop |-> FALSE]

\* no stringMutator in use
NoMutator == [fn |-> "", s |-> <<>>, rs |-> <<>>]

\* stringMutator.Mutate: strings.Map of stringMutator.mapping over the runes of
\* s, which drops the runes mapped to a negative value. Every call ends with
\* reset(), so it starts with sm.n = false; when mapping meets the rune at i,
\* sm.n is true exactly when the rune before it was one of a collapsing run
Mutate(fn(_), s) ==
    LET n(i) == i > 1 /\ fn(s[i - 1]).v >= 0 /\ fn(s[i - 1]).drop
        mapping(i) == IF fn(s[i]).v < 0 THEN -1
                      ELSE IF fn(s[i]).drop THEN (IF ~n(i) THEN fn(s[i]).v ELSE -1)
                      ELSE fn(s[i]).v
    IN SelectSeq([i \in 1..Len(s) |-> mapping(i)], LAMBDA r : r >= 0)

----------------------------------------------------------------------------
(* W3C tracecontext (propagatorW3c) *)

\* composeTracestate's callback over the propagating tags keys[i..], b being
\* the builder so far: it stops at the first tag that does not fit
RECURSIVE composeTags(_, _, _, _)
composeTags(tags, keys, i, b) ==
    IF i > Len(keys) THEN b
    ELSE LET k == keys[i]
             key == Mutate(keyDisallowedFn, Drop(k, Len(ddTagPrefix)))
             value == Mutate(valueDisallowedFn, tags[k])
         IN IF ~HasPrefix(k, ddTagPrefix) THEN composeTags(tags, keys, i + 1, b)
            ELSE IF Len(b) + Len(key) + Len(value) + 4 > 256 THEN b
            ELSE composeTags(tags, keys, i + 1,
                             b \o <<59, 116, 46>> \o key \o <<58>> \o value)   \* ";t." ":"

\* the vendors of the old state appended after the dd= member: members[i..],
\* listLength counting the list-members written so far
RECURSIVE composeVendors(_, _, _, _)
composeVendors(members, i, b, listLength) ==
    IF i > Len(members) THEN b
    ELSE IF HasPrefix(members[i], ddMemberPrefix)
    THEN composeVendors(members, i + 1, b, listLength)
    ELSE IF listLength + 1 > 32 THEN b
    ELSE composeVendors(members, i + 1,
                        b \o <<44>> \o Trim(members[i], {32, 9}), listLength + 1)

\* composeTracestate with the reparent id written as p whenever there is one,
\* remote context or not
composeTracestateReparentFirst(c, priority, oldState, keys) ==
    LET b0 == <<100, 100, 61, 115, 58>> \o Itoa(priority)                 \* "dd=s:"
        b1 == IF c.origin # <<>>
              THEN b0 \o <<59, 111, 58>> \o Mutate(originDisallowedFn, c.origin)   \* ";o:"
              ELSE b0
        b2 == IF c.reparentID # <<>>
              THEN b1 \o <<59, 112, 58>> \o c.reparentID                    \* ";p:"
              ELSE IF ~c.isRemote
              THEN b1 \o <<59, 112, 58>> \o spanIDHexEncoded(SpanID(c))
              ELSE b1
        b3 == IF c.hasTrace
              THEN composeTags(c.ptags, SelectSeq(keys, LAMBDA k : k \in DOMAIN c.ptags), 1, b2)
              ELSE b2
    IN IF Len(oldState) = 0 THEN b3
       ELSE composeVendors(Split(Trim(oldState, {32, 9}), 44), 1, b3, 1)

\* composeTracestate(ctx, priority, oldState), the propagating tags visited in
\* the order keys
composeTracestate(c, priority, oldState, keys) ==
    LET b0 == <<100, 100, 61, 115, 58>> \o Itoa(priority)                 \* "dd=s:"
        b1 == IF c.origin # <<>>
              THEN b0 \o <<59, 111, 58>> \o Mutate(originDisallowedFn, c.origin)   \* ";o:"
              ELSE b0
        b2 == IF ~c.isRemote
              THEN b1 \o <<59, 112, 58>> \o spanIDHexEncoded(SpanID(c))       \* ";p:"
              ELSE IF c.reparentID # <<>>
              THEN b1 \o <<59, 112, 58>> \o c.reparentID
              ELSE b1
        b3 == IF c.hasTrace
              THEN composeTags(c.ptags, SelectSeq(keys, LAMBDA k : k \in DOMAIN c.ptags), 1, b2)
              ELSE b2
    IN IF Len(oldState) = 0 THEN b3
       ELSE composeVendors(Split(Trim(oldState, {32, 9}), 44), 1, b3, 1)

\* strconv.ParseInt(s, 16, 8): an optional sign, hex digits, a value in -128..127
ParseInt8Hex(s) ==
    LET neg == s # <<>> /\ Head(s) = 45
        body == IF s # <<>> /\ Head(s) \in {43, 45} THEN Tail(s) ELSE s
        u == ParseUint(body, 16)
        v == IF neg THEN -u.v ELSE u.v
    IN IF u.ok /\ v >= -128 /\ v <= 127 THEN [ok |-> TRUE, v |-> v]
       ELSE [ok |-> FALSE, v |-> 0]

nonWordCutset == {95, 45, 9, 32, 10}     \* "_-\t \n"

\* parseTraceparent with a span id of zero reported as a corrupted header
parseTraceparentZeroSpanCorrupted(c, header0) ==
    Let(ToLower(Trim(header0, {9, 32, 45})), LAMBDA header :
    Let(SplitN(header, 45, 5), LAMBDA parts :
    Let([err |-> ErrSpanContextCorrupted, ctx |-> c], LAMBDA corrupted :
    IF Len(header) = 0 THEN [err |-> ErrSpanContextNotFound, ctx |-> c]
    ELSE IF Len(header) < 55 THEN corrupted
    ELSE IF Len(parts) < 4 THEN corrupted
    ELSE
    Let(Trim(parts[1], nonWordCutset), LAMBDA version :
    Let(ParseUint(version, 16), LAMBDA v :
    Let(Trim(parts[2], nonWordCutset), LAMBDA fullTraceID :
    Let(Trim(parts[3], nonWordCutset), LAMBDA spanID :
    IF Len(version) # 2 THEN corrupted
    ELSE IF ~v.ok \/ v.v = 255 THEN corrupted
    ELSE IF v.v = 0 /\ Len(header) # 55 THEN corrupted
    ELSE IF Len(fullTraceID) # 32 THEN corrupted
    ELSE IF ~isValidID(fullTraceID) THEN corrupted
    ELSE
    Let(IF c.hasTrace THEN unsetPropagatingTag(c, keyTraceID128) ELSE c, LAMBDA c1 :
    Let([err |-> ErrSpanContextCorrupted, ctx |-> c1], LAMBDA corrupted1 :
    Let(extractTraceID128(c1.traceID, fullTraceID), LAMBDA tid :
    Let(ParseUint(spanID, 16), LAMBDA sid :
    Let(ParseInt8Hex(parts[4]), LAMBDA f :
    Let([c1 EXCEPT !.traceID = tid.t, !.spanID = sid.v], LAMBDA c2 :
    IF ~tid.ok THEN corrupted1
    ELSE IF Len(spanID) # 16 THEN corrupted1
    ELSE IF ~isValidID(spanID) THEN corrupted1
    ELSE IF ~sid.ok THEN corrupted1
    ELSE IF sid.v = 0 THEN [err |-> ErrSpanContextCorrupted, ctx |-> c2]
    ELSE IF ~f.ok THEN [err |-> ErrSpanContextCorrupted, ctx |-> c2]
    ELSE [err |-> ErrNone, ctx |-> setSamplingPriority(c2, f.v % 2, "Unknown")]
    )))))))))))))

\* parseTraceparent: the error and the context it leaves
parseTraceparent(c, header0) ==
    Let(ToLower(Trim(header0, {9, 32, 45})), LAMBDA header :
    Let(SplitN(header, 45, 5), LAMBDA parts :
    Let([err |-> ErrSpanContextCorrupted, ctx |-> c], LAMBDA corrupted :
    IF Len(header) = 0 THEN [err |-> ErrSpanContextNotFound, ctx |-> c]
    ELSE IF Len(header) < 55 THEN corrupted
    ELSE IF Len(parts) < 4 THEN corrupted
    ELSE
    Let(Trim(parts[1], nonWordCutset), LAMBDA version :
    Let(ParseUint(version, 16), LAMBDA v :
    Let(Trim(parts[2], nonWordCutset), LAMBDA fullTraceID :
    Let(Trim(parts[3], nonWordCutset), LAMBDA spanID :
    IF Len(version) # 2 THEN corrupted
    ELSE IF ~v.ok \/ v.v = 255 THEN corrupted
    ELSE IF v.v = 0 /\ Len(header) # 55 THEN corrupted
    ELSE IF Len(fullTraceID) # 32 THEN corrupted
    ELSE IF ~isValidID(fullTraceID) THEN corrupted
    ELSE
    Let(IF c.hasTrace THEN unsetPropagatingTag(c, keyTraceID128) ELSE c, LAMBDA c1 :
    Let([err |-> ErrSpanContextCorrupted, ctx |-> c1], LAMBDA corrupted1 :
    Let(extractTraceID128(c1.traceID, fullTraceID), LAMBDA tid :
    Let(ParseUint(spanID, 16), LAMBDA sid :
    Let(ParseInt8Hex(parts[4]), LAMBDA f :
    Let([c1 EXCEPT !.traceID = tid.t, !.spanID = sid.v], LAMBDA c2 :
    IF ~tid.ok THEN corrupted1
    ELSE IF Len(spanID) # 16 THEN corrupted1
    ELSE IF ~isValidID(spanID) THEN corrupted1
    ELSE IF ~sid.ok THEN corrupted1
    ELSE IF sid.v = 0 THEN [err |-> ErrSpanContextNotFound, ctx |-> c2]
    ELSE IF ~f.ok THEN [err |-> ErrSpanContextCorrupted, ctx |-> c2]
    ELSE [err |-> ErrNone, ctx |-> setSamplingPriority(c2, f.v % 2, "Unknown")]
    )))))))))))))

\* parseDDMembers with the s entry taken whatever the sampled flag says
RECURSIVE parseDDMembersStateWins(_, _, _, _)
parseDDMembersStateWins(c, members, i, dropDM) ==
    IF i > Len(members) THEN c
    ELSE
    Let(SplitN(members[i], 58, 2), LAMBDA keyVal :
    IF Len(keyVal) # 2 THEN parseDDMembersStateWins(c, members, i + 1, dropDM)
    ELSE IF keyVal[1] = <<111>>
    THEN parseDDMembersStateWins([c EXCEPT !.origin = ReplaceRune(keyVal[2], 126, 61)],
                                 members, i + 1, dropDM)
    ELSE IF keyVal[1] = <<115>> /\ Atoi(keyVal[2]).ok
    THEN parseDDMembersStateWins(setSamplingPriority(c, Atoi(keyVal[2]).v, "Unknown"),
                                 members, i + 1, dropDM)
    ELSE IF HasPrefix(keyVal[1], <<116, 46, 100, 109>>)
            /\ ~hasPropagatingTag(c, keyDecisionMaker)
    THEN parseDDMembersStateWins(setPropagatingTag(c, keyDecisionMaker, keyVal[2]),
                                 members, i + 1, dropDM)
    ELSE parseDDMembersStateWins(c, members, i + 1, dropDM))

\* the members of one dd= group applied in order; dropDM is the local flag
RECURSIVE parseDDMembers(_, _, _, _)
parseDDMembers(c, members, i, dropDM) ==
    IF i > Len(members) THEN c
    ELSE
    Let(SplitN(members[i], 58, 2), LAMBDA keyVal :
    IF Len(keyVal) # 2 THEN parseDDMembers(c, members, i + 1, dropDM)
    ELSE
    Let(keyVal[1], LAMBDA key :
    Let(keyVal[2], LAMBDA val :
    Let(Atoi(val), LAMBDA stateP :
    Let(SamplingPriority(c).p, LAMBDA parentP :
    IF key = <<111>>                                                     \* "o"
    THEN parseDDMembers([c EXCEPT !.origin = ReplaceRune(val, 126, 61)],
                        members, i + 1, dropDM)
    ELSE IF key = <<115>>                                                \* "s"
    THEN IF ~stateP.ok THEN parseDDMembers(c, members, i + 1, dropDM)
         ELSE parseDDMembers(
                  IF (parentP = 1 /\ stateP.v > 0) \/ (parentP = 0 /\ stateP.v <= 0)
                  THEN setSamplingPriority(c, stateP.v, "Unknown")
                  ELSE IF parentP = 1
                  THEN setSamplingPriority(c, PriorityAutoKeep, "Default")
                  ELSE IF parentP = 0
                  THEN setSamplingPriority(c, PriorityAutoReject, "Unknown")
                  ELSE c,
                  members, i + 1, dropDM \/ (parentP = 0 /\ stateP.v > 0))
    ELSE IF key = <<112>>                                                \* "p"
    THEN parseDDMembers([c EXCEPT !.reparentID = val], members, i + 1, dropDM)
    ELSE IF HasPrefix(key, <<116, 46, 100, 109>>)                        \* "t.dm"
    THEN IF hasPropagatingTag(c, keyDecisionMaker) \/ dropDM
         THEN parseDDMembers(c, members, i + 1, dropDM)
         ELSE parseDDMembers(setPropagatingTag(c, keyDecisionMaker, val),
                             members, i + 1, dropDM)
    ELSE IF HasPrefix(key, <<116, 46>>)                                  \* "t."
    THEN parseDDMembers(
             setPropagatingTag(c, ddTagPrefix \o Drop(key, 2), ReplaceRune(val, 126, 61)),
             members, i + 1, dropDM)
    ELSE parseDDMembers(c, members, i + 1, dropDM))))))

RECURSIVE parseGroups(_, _, _)
parseGroups(c, groups, i) ==
    IF i > Len(groups) THEN c
    ELSE IF ~HasPrefix(groups[i], ddMemberPrefix) THEN parseGroups(c, groups, i + 1)
    ELSE parseGroups(
             parseDDMembers(c, Split(Drop(groups[i], Len(ddMemberPrefix)), 59), 1, FALSE),
             groups, i + 1)

\* parseTracestate
parseTracestate(c, header) ==
    IF header = <<>> THEN c
    ELSE parseGroups(setPropagatingTag(c, tracestateHeader, header),
                     Split(Trim(header, {9, 32}), 44), 1)

\* propagatorW3c.extractTextMap
w3cExtractTextMap(h) ==
    Let(parseTraceparent(
            [ZeroCtx EXCEPT !.isRemote = TRUE,
                            !.baggage = PrefixedHeaders(h, DefaultBaggageHeaderPrefix)],
            IF HasHeader(h, traceparentHeader) THEN Header(h, traceparentHeader) ELSE <<>>),
        LAMBDA tp :
    IF tp.err # ErrNone THEN Failed(tp.err)
    ELSE Found(parseTracestate(
                   tp.ctx,
                   IF HasHeader(h, tracestateHeader) THEN Header(h, tracestateHeader)
                   ELSE <<>>)))

w3cExtract(car) ==
    IF car.valid THEN w3cExtractTextMap(car.h) ELSE Failed(ErrInvalidCarrier)

\* w3cRecompose with the updated flag left out
w3cRecomposeIgnoresUpdated(c) ==
    \/ (~c.isRemote \/ (c.isRemote /\ c.hasTrace /\ c.root))
    \/ (c.hasTrace /\ ~HasPrefix(propagatingTag(c, tracestateHeader), ddMemberPrefix))
    \/ propagatingTagsLen(c) = 0

\* the condition under which injectTextMap composes a new tracestate instead
\* of writing the stored one
w3cRecompose(c) ==
    \/ c.updated
    \/ (~c.isRemote \/ (c.isRemote /\ c.hasTrace /\ c.root))
    \/ (c.hasTrace /\ ~HasPrefix(propagatingTag(c, tracestateHeader), ddMemberPrefix))
    \/ propagatingTagsLen(c) = 0

\* propagatorW3c.injectTextMap from the first writer.Set on, sp being the
\* sampling priority read at its start
w3cWriteHeaders(c1, sp, h, keys) ==
    LET flags == IF sp.ok /\ sp.p >= PriorityAutoKeep THEN <<48, 49>> ELSE <<48, 48>>
        \* ctx.TraceID() and Sprintf("%032x", ctx.traceID) both give the 32 digits
        traceID == HexEncoded(c1.traceID)
        h1 == MapSet(h, traceparentHeader,
                     <<48, 48, 45>> \o traceID \o <<45>> \o PadHex(c1.spanID, 16)
                        \o <<45>> \o flags)
        state == IF w3cRecompose(c1)
                 THEN composeTracestate(c1, sp.p, propagatingTag(c1, tracestateHeader), keys)
                 ELSE propagatingTag(c1, tracestateHeader)
    IN [err |-> ErrNone, h |-> MapSet(h1, tracestateHeader, state), ctx |-> c1]

\* propagatorW3c.injectTextMap, the propagating tags visited in the order keys
w3cInjectTextMap(c, h, keys) ==
    IF c.nil \/ Empty(c.traceID) \/ c.spanID = 0
    THEN [err |-> ErrInvalidSpanContext, h |-> h, ctx |-> c]
    ELSE w3cWriteHeaders(injectTraceID128(c), SamplingPriority(c), h, keys)

w3cInject(c, car, keys) ==
    IF c.nil THEN [err |-> ErrInvalidSpanContext, h |-> car.h, ctx |-> c]
    ELSE IF ~car.valid THEN [err |-> ErrInvalidCarrier, h |-> car.h, ctx |-> c]
    ELSE w3cInjectTextMap(c, car.h, keys)

----------------------------------------------------------------------------
(* The baggage format (propagatorBaggage) *)

baggageMaxItems == 64
baggageMaxBytes == 8192

\* A-Z a-z 0-9 !#$%&'*+-.^_`|~
safeCharactersKey ==
    (65..90) \cup (97..122) \cup (48..57)
        \cup {33, 35, 36, 37, 38, 39, 42, 43, 45, 46, 94, 95, 96, 124, 126}

\* A-Z a-z 0-9 !#$%&'()*+-./:<>?@[]^_`{|}~
safeCharactersValue ==
    (65..90) \cup (97..122) \cup (48..57)
        \cup {33, 35, 36, 37, 38, 39, 40, 41, 42, 43, 45, 46, 47, 58, 60, 62, 63, 64,
              91, 93, 94, 95, 96, 123, 124, 125, 126}

UpperHexRune(d) == IF d < 10 THEN 48 + d ELSE 55 + d

\* url.QueryEscape of one ASCII rune
QueryEscapeRune(r) ==
    IF (r >= 65 /\ r <= 90) \/ (r >= 97 /\ r <= 122) \/ (r >= 48 /\ r <= 57)
         \/ r \in {45, 95, 46, 126}
    THEN <<r>>
    ELSE IF r = 32 THEN <<43>>
    ELSE <<37, UpperHexRune(r \div 16), UpperHexRune(r % 16)>>

\* urlEncode: every rune written as it is or as its escape of up to three
\* runes; the slots an escape leaves unused are marked -1 and taken out
urlEncode(input, safeCharacters) ==
    LET piece(r) == IF r \in safeCharacters THEN <<r>> ELSE QueryEscapeRune(r)
        slot(j) == Let(piece(input[(j + 2) \div 3]), LAMBDA p :
                       IF ((j - 1) % 3) + 1 <= Len(p) THEN p[((j - 1) % 3) + 1] ELSE -1)
    IN SelectSeq([j \in 1..(3 * Len(input)) |-> slot(j)], LAMBDA r : r >= 0)

encodeKey(key) == urlEncode(TrimSpace(key), safeCharactersKey)
encodeValue(value) == urlEncode(TrimSpace(value), safeCharactersValue)

\* url.QueryUnescape: "" (the caller drops the error) when a % is not followed
\* by two hex digits. Otherwise every % stands with the two digits after it
\* for one byte, a + for a space, and the other runes for themselves
QueryUnescape(s) ==
    LET rune(i) == IF s[i] = 37
                   THEN DigitVal(s[i + 1], 16) * 16 + DigitVal(s[i + 2], 16)
                   ELSE IF i > 1 /\ s[i - 1] = 37 THEN -1
                   ELSE IF i > 2 /\ s[i - 2] = 37 THEN -1
                   ELSE IF s[i] = 43 THEN 32
                   ELSE s[i]
    IN IF \A i \in 1..Len(s) :
             s[i] = 37 => /\ i + 2 <= Len(s)
                          /\ DigitVal(s[i + 1], 16) >= 0
                          /\ DigitVal(s[i + 2], 16) >= 0
       THEN SelectSeq([i \in 1..Len(s) |-> rune(i)], LAMBDA r : r >= 0)
       ELSE <<>>

\* baggageBuild without the two limits: every item is written
RECURSIVE baggageBuildUnbounded(_, _, _, _, _)
baggageBuildUnbounded(bag, keys, i, ctr, b) ==
    IF i > Len(keys) THEN b
    ELSE baggageBuildUnbounded(
             bag, keys, i + 1, ctr + 1,
             b \o (IF ctr > 0 THEN <<44>> ELSE <<>>)
               \o encodeKey(keys[i]) \o <<61>> \o encodeValue(bag[keys[i]]))

\* the ForeachBaggageItem callback of injectTextMap over the items keys[i..]
RECURSIVE baggageBuild(_, _, _, _, _)
baggageBuild(bag, keys, i, ctr, b) ==
    IF i > Len(keys) THEN b
    ELSE IF ctr >= baggageMaxItems THEN b
    ELSE LET item == (IF ctr > 0 THEN <<44>> ELSE <<>>)
                        \o encodeKey(keys[i]) \o <<61>> \o encodeValue(bag[keys[i]])
         IN IF Len(item) + Len(b) > baggageMaxBytes THEN b
            ELSE baggageBuild(bag, keys, i + 1, ctr + 1, b \o item)

\* propagatorBaggage.injectTextMap, the items visited in the order keys
baggageInjectTextMap(c, h, keys) ==
    IF c.nil THEN [err |-> ErrNone, h |-> h, ctx |-> c]
    ELSE LET b == baggageBuild(c.baggage, keys, 1, 0, <<>>)
         IN [err |-> ErrNone,
             h |-> IF Len(b) > 0 THEN MapSet(h, DefaultBaggageHeader, b) ELSE h,
             ctx |-> c]

baggageInject(c, car, keys) ==
    IF ~car.valid THEN [err |-> ErrInvalidCarrier, h |-> car.h, ctx |-> c]
    ELSE baggageInjectTextMap(c, car.h, keys)

\* the second pass of extractTextMap: decode and apply, a later pair
\* overwriting an earlier one of the same key
baggageApply(bag, parts, i) ==
    LET key(j) == QueryUnescape(TrimSpace(Cut(parts[j], 61).before))
        val(j) == QueryUnescape(TrimSpace(Cut(parts[j], 61).after))
        last(k) == CHOOSE j \in i..Len(parts) :
                      key(j) = k /\ \A l \in (j + 1)..Len(parts) : key(l) # k
    IN MapCopy(bag, [k \in {key(j) : j \in i..Len(parts)} |-> val(last(k))])

\* extractTextMap with the malformed pieces skipped and the others applied
baggageExtractTextMapPartial(h) ==
    LET baggageHeader == IF HasHeader(h, DefaultBaggageHeader)
                         THEN Header(h, DefaultBaggageHeader) ELSE <<>>
        good(p) == Let(Cut(p, 61), LAMBDA kv :
                       kv.found /\ TrimSpace(kv.before) # <<>> /\ TrimSpace(kv.after) # <<>>)
    IN IF baggageHeader = <<>> THEN Found(ZeroCtx)
       ELSE Found([ZeroCtx EXCEPT !.baggage =
                      baggageApply(EmptyMap, SelectSeq(Split(baggageHeader, 44), good), 1)])

\* propagatorBaggage.extractTextMap
baggageExtractTextMap(h) ==
    LET baggageHeader == IF HasHeader(h, DefaultBaggageHeader)
                         THEN Header(h, DefaultBaggageHeader) ELSE <<>>
        parts == Split(baggageHeader, 44)
        valid == \A i \in 1..Len(parts) :
                    LET kv == Cut(parts[i], 61)
                    IN kv.found /\ TrimSpace(kv.before) # <<>> /\ TrimSpace(kv.after) # <<>>
    IN IF baggageHeader = <<>> THEN Found(ZeroCtx)
       ELSE IF ~valid THEN Found(ZeroCtx)
       ELSE Found([ZeroCtx EXCEPT !.baggage = baggageApply(EmptyMap, parts, 1)])

baggageExtract(car) ==
    IF car.valid THEN baggageExtractTextMap(car.h) ELSE Failed(ErrInvalidCarrier)

----------------------------------------------------------------------------
(* chainedPropagator.Extract *)

Formats == {"datadog", "tracecontext", "baggage", "b3multi", "b3"}

\* getPropagatorName: the formats are named by what it returns for them
getPropagatorName(v) == v

\* v.Extract(carrier)
ExtractOf(v, car) ==
    CASE v = "datadog" -> ddExtract(car)
      [] v = "tracecontext" -> w3cExtract(car)
      [] v = "b3multi" -> b3Extract(car)
      [] v = "b3" -> b3SingleExtract(car)
      [] v = "baggage" -> baggageExtract(car)

\* getDatadogPropagator(p) != nil
hasDatadogPropagator(extractors) ==
    \E i \in 1..Len(extractors) : extractors[i] = "datadog"

\* propagateTracestate with the incoming tracestate stored as it came
propagateTracestateAsReceived(c, w3cCtx, keys) ==
    IF w3cCtx.nil \/ TraceID(c) # TraceID(w3cCtx) \/ ~w3cCtx.hasTrace THEN c
    ELSE [setPropagatingTag(c, tracestateHeader,
                            propagatingTag(w3cCtx, tracestateHeader))
          EXCEPT !.isRemote = w3cCtx.isRemote]

\* propagatorW3c.propagateTracestate, the propagating tags of ctx visited in
\* the order keys
propagateTracestate(c, w3cCtx, keys) ==
    IF w3cCtx.nil THEN c
    ELSE IF TraceID(c) # TraceID(w3cCtx) THEN c
    ELSE IF ~w3cCtx.hasTrace THEN c
    ELSE Let([c EXCEPT !.hasTrace = TRUE], LAMBDA c1 :
             [setPropagatingTag(
                  c1, tracestateHeader,
                  composeTracestate(c1, SamplingPriority(c1).p,
                                    propagatingTag(w3cCtx, tracestateHeader), keys))
              EXCEPT !.isRemote = w3cCtx.isRemote])

\* overrideDatadogParentID
overrideDatadogParentID(c, w3cCtx, ddCtx) ==
    IF c.nil \/ w3cCtx.nil \/ ddCtx.nil THEN c
    ELSE [c EXCEPT !.spanID = w3cCtx.spanID,
                   !.reparentID = IF w3cCtx.reparentID # <<>> THEN w3cCtx.reparentID
                                  ELSE PadHex(SpanID(ddCtx), 16)]

\* the SpanLink built for a context whose trace id differs; flags is the
\* outcome of the test flags > 0 on the converted priority
NewSpanLink(c, v, flags) ==
    [TraceID |-> TraceIDLower(c),
     SpanID |-> SpanID(c),
     TraceIDHigh |-> TraceIDUpper(c),
     Attributes |-> [reason |-> "terminated_context", context_headers |-> getPropagatorName(v)],
     Flags |-> IF c.hasTrace THEN flags ELSE 0,
     Tracestate |-> IF c.hasTrace THEN propagatingTag(c, tracestateHeader) ELSE <<>>]

\* the values the test flags > 0 can take, as 1 or 0: converting a
\* negative float64 to uint32 is implementation-dependent in Go
LinkFlags(c) ==
    IF c.priority.p > 0 THEN {1}
    ELSE IF c.priority.p = 0 THEN {0}
    ELSE {0, 1}

\* no call has been made before the one in progress
NoCall == [made |-> FALSE]

Return(c, e) ==
    /\ pc' = "done"
    /\ ret' = [ctx |-> c, err |-> e]

\* ExtractFirst with every error absorbed, not only not_found
ExtractFirstAbsorbsErrors ==
    /\ pc = "loop" /\ idx <= Len(chain)
    /\ chain[idx] # "baggage"
    /\ ctx.nil
    /\ ctx' = ExtractOf(chain[idx], carrier).ctx
    /\ idx' = idx + 1
    /\ calls' = Append(calls, chain[idx])
    /\ UNCHANGED <<sm, ps, cfgB3, procs, first, chain,
                   onlyExtractFirst, carrier, links, pendingBaggage, orig,
                   cfgMaxTagsLen, pc, ret>>

\* ExtractFirst with onlyExtractFirst read as false
ExtractFirstIgnoresMode ==
    /\ pc = "loop" /\ idx <= Len(chain)
    /\ chain[idx] # "baggage"
    /\ ctx.nil
    /\ Let(ExtractOf(chain[idx], carrier), LAMBDA r :
          IF r.err # ErrNone /\ r.err # ErrSpanContextNotFound
          THEN Return(NilCtx, r.err) /\ UNCHANGED <<ctx, idx>>
          ELSE ctx' = r.ctx /\ idx' = idx + 1 /\ UNCHANGED <<pc, ret>>)
    /\ calls' = Append(calls, chain[idx])
    /\ UNCHANGED <<sm, ps, cfgB3, procs, first, chain,
                   onlyExtractFirst, carrier, links, pendingBaggage, orig,
                   cfgMaxTagsLen>>

\* ExtractLater with the latest valid context taking over
ExtractLaterLastWins ==
    /\ pc = "loop" /\ idx <= Len(chain)
    /\ chain[idx] # "baggage"
    /\ ~ctx.nil
    /\ Let(ExtractOf(chain[idx], carrier).ctx, LAMBDA extractedCtx2 :
          ctx' = IF extractedCtx2.nil THEN ctx ELSE extractedCtx2)
    /\ calls' = Append(calls, chain[idx])
    /\ idx' = idx + 1
    /\ UNCHANGED <<sm, ps, cfgB3, procs, first, chain,
                   onlyExtractFirst, carrier, pendingBaggage, ret, orig,
                   cfgMaxTagsLen, links, pc>>

\* ExtractFinish with the pending baggage forgotten when no context has won
ExtractFinishDropsBaggage ==
    /\ pc = "loop" /\ idx > Len(chain)
    /\ IF ctx.nil THEN Return(NilCtx, ErrSpanContextNotFound)
       ELSE Return([ctx EXCEPT !.baggage = MapCopy(ctx.baggage, pendingBaggage),
                               !.spanLinks = links], ErrNone)
    /\ UNCHANGED <<sm, ps, cfgB3, procs, first, chain,
                   onlyExtractFirst, carrier, idx, ctx, links, pendingBaggage,
                   calls, orig, cfgMaxTagsLen>>

\* ExtractBaggage with the baggage context taking the place of the winner when
\* no context has been extracted before it
ExtractBaggageWins ==
    /\ pc = "loop" /\ idx <= Len(chain)
    /\ chain[idx] = "baggage"
    /\ ctx' = IF ctx.nil THEN ExtractOf(chain[idx], carrier).ctx ELSE ctx
    /\ calls' = Append(calls, chain[idx])
    /\ idx' = idx + 1
    /\ UNCHANGED <<sm, ps, cfgB3, procs, first, chain,
                   onlyExtractFirst, carrier, pendingBaggage, links, pc, ret,
                   orig, cfgMaxTagsLen>>

\* the baggage propagator's items are stashed into pendingBaggage
ExtractBaggage ==
    /\ pc = "loop" /\ idx <= Len(chain)
    /\ chain[idx] = "baggage"
    /\ Let(ExtractOf(chain[idx], carrier).ctx, LAMBDA extractedCtx :
          pendingBaggage' =
             IF ~extractedCtx.nil /\ Cardinality(DOMAIN extractedCtx.baggage) > 0
             THEN MapCopy(pendingBaggage, extractedCtx.baggage)
             ELSE pendingBaggage)
    /\ calls' = Append(calls, chain[idx])
    /\ idx' = idx + 1
    /\ UNCHANGED <<sm, ps, cfgB3, procs, first, chain,
                   onlyExtractFirst, carrier, ctx, links, pc, ret, orig,
                   cfgMaxTagsLen>>

\* ExtractFirst with the pending baggage added to the context that
\* extract-first mode returns
ExtractFirstMergesBaggage ==
    /\ pc = "loop" /\ idx <= Len(chain)
    /\ chain[idx] # "baggage"
    /\ ctx.nil
    /\ Let(ExtractOf(chain[idx], carrier), LAMBDA r :
          IF r.err # ErrNone /\ (onlyExtractFirst \/ r.err # ErrSpanContextNotFound)
          THEN Return(NilCtx, r.err) /\ UNCHANGED <<ctx, idx>>
          ELSE IF onlyExtractFirst
          THEN Return([r.ctx EXCEPT !.baggage = MapCopy(r.ctx.baggage, pendingBaggage)],
                      ErrNone) /\ UNCHANGED <<ctx, idx>>
          ELSE ctx' = r.ctx /\ idx' = idx + 1 /\ UNCHANGED <<pc, ret>>)
    /\ calls' = Append(calls, chain[idx])
    /\ UNCHANGED <<sm, ps, cfgB3, procs, first, chain,
                   onlyExtractFirst, carrier, links, pendingBaggage, orig,
                   cfgMaxTagsLen>>

\* no context extracted so far (firstExtract)
ExtractFirst ==
    /\ pc = "loop" /\ idx <= Len(chain)
    /\ chain[idx] # "baggage"
    /\ ctx.nil
    /\ Let(ExtractOf(chain[idx], carrier), LAMBDA r :
          IF r.err # ErrNone /\ (onlyExtractFirst \/ r.err # ErrSpanContextNotFound)
          THEN Return(NilCtx, r.err) /\ UNCHANGED <<ctx, idx>>
          ELSE IF onlyExtractFirst
          THEN Return(r.ctx, ErrNone) /\ UNCHANGED <<ctx, idx>>
          ELSE ctx' = r.ctx /\ idx' = idx + 1 /\ UNCHANGED <<pc, ret>>)
    /\ calls' = Append(calls, chain[idx])
    /\ UNCHANGED <<sm, ps, cfgB3, procs, first, chain,
                   onlyExtractFirst, carrier, links, pendingBaggage, orig,
                   cfgMaxTagsLen>>

\* the Datadog context extracted again for overrideDatadogParentID: nil when
\* no Datadog propagator is configured or its Extract fails
ddCtxOf(extractors, r) ==
    IF hasDatadogPropagator(extractors) /\ r.err = ErrNone THEN r.ctx ELSE NilCtx

\* ExtractLater with the error of a later extractor returned by Extract
ExtractLaterReturnsError ==
    /\ pc = "loop" /\ idx <= Len(chain)
    /\ chain[idx] # "baggage"
    /\ ~ctx.nil
    /\ IF ExtractOf(chain[idx], carrier).err # ErrNone
       THEN Return(NilCtx, ExtractOf(chain[idx], carrier).err)
       ELSE UNCHANGED <<pc, ret>>
    /\ calls' = Append(calls, chain[idx])
    /\ idx' = idx + 1
    /\ UNCHANGED <<sm, ps, cfgB3, procs, first, chain,
                   onlyExtractFirst, carrier, pendingBaggage, ctx, links, orig,
                   cfgMaxTagsLen>>

\* a local trace context has already been extracted
ExtractLater ==
    /\ pc = "loop" /\ idx <= Len(chain)
    /\ chain[idx] # "baggage"
    /\ ~ctx.nil
    /\ Let(ExtractOf(chain[idx], carrier).ctx, LAMBDA extractedCtx2 :
          IF TraceID(extractedCtx2) = TraceID(ctx)
          THEN /\ IF chain[idx] = "tracecontext"
                  THEN \E keys \in KeyOrders(DOMAIN ctx.ptags) :
                          Let(propagateTracestate(ctx, extractedCtx2, keys), LAMBDA c2 :
                             ctx' = IF SpanID(extractedCtx2) # SpanID(c2)
                                    THEN overrideDatadogParentID(
                                             c2, extractedCtx2,
                                             ddCtxOf(chain, ddExtract(carrier)))
                                    ELSE c2)
                  ELSE ctx' = ctx
               /\ UNCHANGED <<links, pc>>
          ELSE IF ~extractedCtx2.nil
          THEN IF extractedCtx2.hasTrace /\ ~extractedCtx2.priority.ok
               THEN \* trace.priority is nil and is dereferenced
                    pc' = "panic" /\ UNCHANGED <<ctx, links>>
               ELSE /\ \E flags \in LinkFlags(extractedCtx2) :
                          links' = Append(links, NewSpanLink(extractedCtx2, chain[idx], flags))
                    /\ UNCHANGED <<ctx, pc>>
          ELSE UNCHANGED <<ctx, links, pc>>)
    /\ calls' = Append(calls, chain[idx])
    /\ idx' = IF pc' = "panic" THEN idx ELSE idx + 1
    /\ UNCHANGED <<sm, ps, cfgB3, procs, first, chain,
                   onlyExtractFirst, carrier, pendingBaggage, ret, orig,
                   cfgMaxTagsLen>>

\* the code after the loop
ExtractFinish ==
    /\ pc = "loop" /\ idx > Len(chain)
    /\ IF ctx.nil
       THEN IF Cardinality(DOMAIN pendingBaggage) > 0
            THEN Return([ZeroCtx EXCEPT !.baggage = MapCopy(EmptyMap, pendingBaggage),
                                        !.baggageOnly = TRUE],
                        ErrNone)
            ELSE Return(NilCtx, ErrSpanContextNotFound)
       ELSE LET c1 == IF Cardinality(DOMAIN pendingBaggage) > 0
                      THEN [ctx EXCEPT !.baggage = MapCopy(ctx.baggage, pendingBaggage)]
                      ELSE ctx
                c2 == IF Len(links) > 0 THEN [c1 EXCEPT !.spanLinks = links] ELSE c1
            IN Return(c2, ErrNone)
    /\ UNCHANGED <<sm, ps, cfgB3, procs, first, chain,
                   onlyExtractFirst, carrier, idx, ctx, links, pendingBaggage,
                   calls, orig, cfgMaxTagsLen>>

----------------------------------------------------------------------------
(* The configured lists and the carriers handed to Extract *)

\* the lists getPropagators builds from a setting that names each format at
\* most once
Chains ==
    UNION {{c \in [1..n -> Formats] : \A i, j \in 1..n : i # j => c[i] # c[j]} :
           n \in 0..MaxChain}

\* "00-<32 hex>-<16 hex>-<flags>"
TraceparentOf(t, s, flags) ==
    <<48, 48, 45>> \o PadHex(0, 16) \o PadHex(t, 16) \o <<45>> \o PadHex(s, 16)
        \o <<45>> \o flags

DDHeaders(t, kind) ==
    LET ids == MapSet(MapSet(EmptyMap, DefaultTraceIDHeader, FormatUint(t, 10)),
                      DefaultParentIDHeader, <<49>>)
    IN CASE kind = "keep" -> MapSet(ids, DefaultPriorityHeader, <<49>>)          \* "1"
         [] kind = "drop" -> MapSet(ids, DefaultPriorityHeader, <<45, 49>>)      \* "-1"
         [] kind = "tags" ->                      \* "_dd.p.dm=-4" and no priority
              MapSet(ids, traceTagsHeader, <<95,100,100,46,112,46,100,109,61,45,52>>)

DDGroups ==
    {EmptyMap, MapSet(EmptyMap, DefaultTraceIDHeader, <<65>>)}                  \* "A"
        \cup {DDHeaders(t, "keep") : t \in 1..MaxID}
        \cup {DDHeaders(1, kind) : kind \in {"drop", "tags"}}

\* "dd=s:2;p:000000000000000a;t.usr:x,foo=1"
TracestateWithParent ==
    <<100,100,61,115,58,50,59,112,58,48,48,48,48,48,48,48,48,48,48,48,48,48,48,48,97,
      59,116,46,117,115,114,58,120,44,102,111,111,61,49>>
\* "foo=1"
TracestateForeign == <<102,111,111,61,49>>

W3CHeaders(t, s, state) ==
    MapSet(MapSet(EmptyMap, traceparentHeader, TraceparentOf(t, s, <<48, 49>>)),
           tracestateHeader, state)

W3CGroups ==
    {EmptyMap, MapSet(EmptyMap, traceparentHeader, <<48, 48, 45, 122>>)}        \* "00-z"
        \cup {W3CHeaders(t, 1, TracestateForeign) : t \in 1..MaxID}
        \cup {W3CHeaders(1, 2, st) : st \in {TracestateWithParent, TracestateForeign}}

B3Headers(t) ==
    MapSet(MapSet(EmptyMap, b3TraceIDHeader, PadHex(t, 16)), b3SpanIDHeader, PadHex(3, 16))

\* no x-b3-sampled header: the extracted context has no trace
B3Groups == {EmptyMap} \cup {B3Headers(t) : t \in 1..MaxID}

\* "<16 hex>-<16 hex>-1"
B3SingleGroups ==
    {EmptyMap}
        \cup {MapSet(EmptyMap, b3SingleHeader,
                     PadHex(t, 16) \o <<45>> \o PadHex(3, 16) \o <<45, 49>>) : t \in 1..MaxID}

BaggageGroups ==
    {EmptyMap,
     MapSet(EmptyMap, DefaultBaggageHeader, <<97, 61, 98, 44, 99, 61, 100>>),   \* "a=b,c=d"
     MapSet(EmptyMap, DefaultBaggageHeader, <<97, 61, 98, 44, 99>>)}            \* "a=b,c"

GroupsOf(v) ==
    CASE v = "datadog" -> DDGroups
      [] v = "tracecontext" -> W3CGroups
      [] v = "b3multi" -> B3Groups
      [] v = "b3" -> B3SingleGroups
      [] v = "baggage" -> BaggageGroups

\* the header maps that give each format of the list one of its groups; the
\* headers of a format that is not configured are read by no extractor
RECURSIVE HeaderMaps(_, _)
HeaderMaps(c, i) ==
    IF i > Len(c) THEN {EmptyMap}
    ELSE {MapCopy(a, b) : a \in GroupsOf(c[i]), b \in HeaderMaps(c, i + 1)}

CarriersOf(c) == {NotACarrier} \cup {TextMap(h) : h \in HeaderMaps(c, 1)}

\* the state when chainedPropagator.Extract is entered
Init ==
    /\ chain \in Chains
    /\ onlyExtractFirst \in BOOLEAN
    /\ carrier \in CarriersOf(chain)
    /\ idx = 1
    /\ ctx = NilCtx
    /\ links = <<>>
    /\ pendingBaggage = EmptyMap
    /\ pc = "loop"
    /\ ret = [ctx |-> NilCtx, err |-> ErrNone]
    /\ calls = <<>>
    /\ orig = NilCtx
    /\ cfgMaxTagsLen = 0
    /\ first = NoCall
    /\ ps = <<>> /\ cfgB3 = FALSE
    /\ procs = <<>>
    /\ sm = NoMutator

Next ==
    \/ ExtractBaggage
    \/ ExtractFirst
    \/ ExtractLater
    \/ ExtractFinish

Spec == Init /\ [][Next]_vars

----------------------------------------------------------------------------
(* chainedPropagator.Inject *)

\* v.Inject(spanCtx, carrier): the propagating tags visited in the order
\* tagKeys, the baggage items in the order bagKeys
InjectOf(v, c, car, tagKeys, bagKeys, maxLen) ==
    CASE v = "datadog" -> ddInject(c, car, tagKeys, maxLen)
      [] v = "tracecontext" -> w3cInject(c, car, tagKeys)
      [] v = "b3multi" -> b3Inject(c, car)
      [] v = "b3" -> b3SingleInject(c, car)
      [] v = "baggage" -> baggageInject(c, car, bagKeys)

\* the propagating tags a range loop of Inject may meet
TagKeys(c) == (DOMAIN c.ptags) \cup {keyTraceID128}

\* one injector with its error dropped: the loop goes on whatever it returns
InjectStepIgnoresError ==
    /\ pc = "inject" /\ idx <= Len(chain)
    /\ \E tagKeys \in KeyOrders(TagKeys(ctx)), bagKeys \in KeyOrders(DOMAIN ctx.baggage) :
          Let(InjectOf(chain[idx], ctx, carrier, tagKeys, bagKeys, cfgMaxTagsLen), LAMBDA r :
             /\ carrier' = [carrier EXCEPT !.h = r.h]
             /\ ctx' = r.ctx
             /\ idx' = idx + 1
             /\ UNCHANGED <<pc, ret>>)
    /\ calls' = Append(calls, chain[idx])
    /\ UNCHANGED <<sm, ps, cfgB3, procs, first, chain,
                   onlyExtractFirst, links, pendingBaggage, orig, cfgMaxTagsLen>>

\* InjectEnter without the nil check: the loop is entered whatever spanCtx is
InjectEnterSkipsNilCheck ==
    /\ pc = "enter"
    /\ pc' = "inject"
    /\ UNCHANGED <<sm, ps, cfgB3, procs, first, chain,
                   onlyExtractFirst, carrier, idx, ctx, links, pendingBaggage,
                   calls, orig, cfgMaxTagsLen, ret>>

\* if spanCtx == nil { return ErrInvalidSpanContext }
InjectEnter ==
    /\ pc = "enter"
    /\ IF ctx.nil THEN Return(NilCtx, ErrInvalidSpanContext)
       ELSE pc' = "inject" /\ UNCHANGED ret
    /\ UNCHANGED <<sm, ps, cfgB3, procs, first, chain,
                   onlyExtractFirst, carrier, idx, ctx, links, pendingBaggage,
                   calls, orig, cfgMaxTagsLen>>

\* one turn of the loop over p.injectors
InjectStep ==
    /\ pc = "inject" /\ idx <= Len(chain)
    /\ \E tagKeys \in KeyOrders(TagKeys(ctx)), bagKeys \in KeyOrders(DOMAIN ctx.baggage) :
          Let(InjectOf(chain[idx], ctx, carrier, tagKeys, bagKeys, cfgMaxTagsLen), LAMBDA r :
             IF r.err # ErrNone
             THEN Return(NilCtx, r.err) /\ UNCHANGED <<carrier, ctx, idx>>
             ELSE /\ carrier' = [carrier EXCEPT !.h = r.h]
                  /\ ctx' = r.ctx
                  /\ idx' = idx + 1
                  /\ UNCHANGED <<pc, ret>>)
    /\ calls' = Append(calls, chain[idx])
    /\ UNCHANGED <<sm, ps, cfgB3, procs, first, chain,
                   onlyExtractFirst, links, pendingBaggage, orig, cfgMaxTagsLen>>

\* return nil
InjectFinish ==
    /\ pc = "inject" /\ idx > Len(chain)
    /\ Return(NilCtx, ErrNone)
    /\ UNCHANGED <<sm, ps, cfgB3, procs, first, chain,
                   onlyExtractFirst, carrier, idx, ctx, links, pendingBaggage,
                   calls, orig, cfgMaxTagsLen>>

\* the span contexts handed to Inject: the ids, and what the span carries
TraceIDs ==
    {ZeroTraceID} \cup {[upper |-> u, lower |-> l] : u \in {0, 1}, l \in 1..MaxID}

Carried ==
    {\* a context without a trace
     ZeroCtx,
     \* kept by a rule, with an origin and a baggage item
     [ZeroCtx EXCEPT !.hasTrace = TRUE, !.root = TRUE,
                     !.priority = [ok |-> TRUE, p |-> 1],
                     !.ptags = MapSet(EmptyMap, keyDecisionMaker, <<45, 52>>),      \* "-4"
                     !.origin = <<114, 117, 109>>,                                  \* "rum"
                     !.baggage = MapSet(EmptyMap, <<107>>, <<118>>)],               \* k=v
     \* rejected by the user, the baggage key in upper case, a space in the value
     [ZeroCtx EXCEPT !.hasTrace = TRUE, !.root = TRUE,
                     !.priority = [ok |-> TRUE, p |-> -1],
                     !.baggage = MapSet(EmptyMap, <<75>>, <<97, 32, 98>>)],         \* K="a b"
     \* kept by the user
     [ZeroCtx EXCEPT !.hasTrace = TRUE, !.root = TRUE,
                     !.priority = [ok |-> TRUE, p |-> 2]],
     \* a trace with a propagating tag and no sampling priority yet
     [ZeroCtx EXCEPT !.hasTrace = TRUE, !.root = TRUE,
                     !.ptags = MapSet(EmptyMap, ddTagPrefix \o <<117, 115, 114>>,   \* "_dd.p.usr"
                                      <<120>>)]}                                    \* "x"

SpanContexts ==
    {[c EXCEPT !.traceID = t, !.spanID = s] : c \in Carried, t \in TraceIDs, s \in {0, 1}}

\* cfg.MaxTagsHeaderLen: off, too short for any tag, ample
MaxTagsHeaderLens == {0, 10, 128}

\* the state when chainedPropagator.Inject is entered
InitInject ==
    /\ chain \in Chains
    /\ onlyExtractFirst = FALSE
    /\ carrier \in {TextMap(EmptyMap), NotACarrier}
    /\ idx = 1
    /\ ctx \in SpanContexts \cup {NilCtx}
    /\ links = <<>>
    /\ pendingBaggage = EmptyMap
    /\ pc = "enter"
    /\ ret = [ctx |-> NilCtx, err |-> ErrNone]
    /\ calls = <<>>
    /\ orig = ctx
    /\ cfgMaxTagsLen \in MaxTagsHeaderLens
    /\ first = NoCall
    /\ ps = <<>> /\ cfgB3 = FALSE
    /\ procs = <<>>
    /\ sm = NoMutator

NextInject ==
    \/ InjectEnter
    \/ InjectStep
    \/ InjectFinish

SpecInject == InitInject /\ [][NextInject]_vars

----------------------------------------------------------------------------
(* Inject, then Extract of what it wrote: one trace format in both lists *)

TraceFormats == Formats \ {"baggage"}

\* the caller hands the carrier Inject has filled to Extract
ExtractInjected ==
    /\ pc = "done" /\ first = NoCall
    /\ ret.err = ErrNone
    /\ first' = [made |-> TRUE, carrier |-> carrier, ret |-> ret]
    /\ ctx' = NilCtx
    /\ idx' = 1
    /\ links' = <<>>
    /\ pendingBaggage' = EmptyMap
    /\ pc' = "loop"
    /\ ret' = [ctx |-> NilCtx, err |-> ErrNone]
    /\ UNCHANGED <<sm, ps, cfgB3, procs, chain, onlyExtractFirst, carrier, calls, orig, cfgMaxTagsLen>>

\* the contexts with a non-empty trace id and a non-zero span id, one of them
\* with all of its trace id in the upper half
RoundTripContexts ==
    {c \in SpanContexts : ~Empty(c.traceID) /\ c.spanID # 0}
       \cup {[c EXCEPT !.traceID = [upper |-> 1, lower |-> 0], !.spanID = 1] : c \in Carried}

InitRoundTrip ==
    /\ chain \in {<<v>> : v \in TraceFormats}
    /\ onlyExtractFirst \in BOOLEAN
    /\ carrier = TextMap(EmptyMap)
    /\ idx = 1
    /\ ctx \in RoundTripContexts
    /\ links = <<>>
    /\ pendingBaggage = EmptyMap
    /\ pc = "enter"
    /\ ret = [ctx |-> NilCtx, err |-> ErrNone]
    /\ calls = <<>>
    /\ orig = ctx
    /\ cfgMaxTagsLen \in MaxTagsHeaderLens
    /\ first = NoCall
    /\ ps = <<>> /\ cfgB3 = FALSE
    /\ procs = <<>>
    /\ sm = NoMutator

NextRoundTrip ==
    \/ InjectEnter
    \/ InjectStep
    \/ InjectFinish
    \/ ExtractInjected
    \/ ExtractFirst
    \/ ExtractFinish

SpecRoundTrip == InitRoundTrip /\ [][NextRoundTrip]_vars

----------------------------------------------------------------------------
(* W3C Extract, then Inject of the extracted context: tracecontext alone *)

\* the caller hands the context Extract returned, unmodified, to Inject with an
\* empty carrier
InjectExtracted ==
    /\ pc = "done" /\ first = NoCall /\ orig.nil
    /\ ret.err = ErrNone
    /\ first' = [made |-> TRUE, carrier |-> carrier, ret |-> ret]
    /\ carrier' = TextMap(EmptyMap)
    /\ ctx' = ret.ctx
    /\ orig' = ret.ctx
    /\ idx' = 1
    /\ pc' = "enter"
    /\ ret' = [ctx |-> NilCtx, err |-> ErrNone]
    /\ UNCHANGED <<sm, ps, cfgB3, procs, chain, onlyExtractFirst, links, pendingBaggage, calls, cfgMaxTagsLen>>

UpperHexDigits(s) == [i \in DOMAIN s |-> IF s[i] \in 97..102 THEN s[i] - 32 ELSE s[i]]

\* traceparent headers of trace id t: the two flags of version 00, a flags
\* byte with a bit beyond sampled, a later version, hex digits in upper case,
\* and blanks around the value
Traceparents(t) ==
    LET ids == HexEncoded(t) \o <<45>> \o PadHex(10, 16) \o <<45>>
    IN {<<48, 48, 45>> \o ids \o <<48, 48>>,                       \* 00-..-00
        <<48, 48, 45>> \o ids \o <<48, 49>>,                       \* 00-..-01
        <<48, 48, 45>> \o ids \o <<48, 51>>,                       \* 00-..-03
        <<48, 49, 45>> \o ids \o <<48, 49>>,                       \* 01-..-01
        <<48, 48, 45>> \o UpperHexDigits(ids) \o <<48, 49>>,
        <<32, 48, 48, 45>> \o ids \o <<48, 49, 32>>}

\* "dd=s:0", "dd=s:1;t.dm:-4" and "foo=1,dd=s:1"
TracestateRejected == <<100, 100, 61, 115, 58, 48>>
TracestateDecided == <<100, 100, 61, 115, 58, 49, 59, 116, 46, 100, 109, 58, 45, 52>>
TracestateForeignFirst == <<102, 111, 111, 61, 49, 44, 100, 100, 61, 115, 58, 49>>

Tracestates ==
    {TracestateWithParent, TracestateForeign, TracestateRejected, TracestateDecided,
     TracestateForeignFirst}

\* the header maps a W3C peer may send
W3CIncoming ==
    {EmptyMap, MapSet(EmptyMap, traceparentHeader, <<48, 48, 45, 122>>)}        \* "00-z"
       \cup {MapSet(EmptyMap, traceparentHeader, p) :
                p \in UNION {Traceparents(t) : t \in TraceIDs \ {ZeroTraceID}}}
       \cup {MapSet(MapSet(EmptyMap, traceparentHeader, p), tracestateHeader, st) :
                p \in UNION {Traceparents(t) : t \in TraceIDs \ {ZeroTraceID}},
                st \in Tracestates}

\* the contexts handed to Inject without an Extract before it: an extracted
\* context whose priority was changed since (updated), whose trace has got a
\* local root span (root), or the context of a child span (not remote); and
\* the contexts of local spans
W3CContexts ==
    {[c EXCEPT !.isRemote = r, !.updated = u, !.root = t] :
        c \in {w3cExtractTextMap(h).ctx :
                  h \in {m \in W3CIncoming : w3cExtractTextMap(m).err = ErrNone}},
        r \in BOOLEAN, u \in BOOLEAN, t \in BOOLEAN}
       \cup {c \in SpanContexts : ~Empty(c.traceID) /\ c.spanID # 0}

InitW3C ==
    /\ chain = <<"tracecontext">>
    /\ onlyExtractFirst \in BOOLEAN
    /\ idx = 1
    /\ links = <<>>
    /\ pendingBaggage = EmptyMap
    /\ ret = [ctx |-> NilCtx, err |-> ErrNone]
    /\ calls = <<>>
    /\ cfgMaxTagsLen = 0
    /\ first = NoCall
    /\ ps = <<>> /\ cfgB3 = FALSE
    /\ procs = <<>>
    /\ sm = NoMutator
    /\ \/ /\ pc = "loop"
          /\ carrier \in {TextMap(h) : h \in W3CIncoming}
          /\ ctx = NilCtx
       \/ /\ pc = "enter"
          /\ carrier = TextMap(EmptyMap)
          /\ ctx \in W3CContexts
    /\ orig = ctx

NextW3C ==
    \/ ExtractFirst
    \/ ExtractFinish
    \/ InjectExtracted
    \/ InjectEnter
    \/ InjectStep
    \/ InjectFinish

SpecW3C == InitW3C /\ [][NextW3C]_vars

----------------------------------------------------------------------------
(* W3C Inject of contexts that press on the limits of the tracestate *)

\* n vendor list-members "v1=1,v2=1,...": an incoming tracestate of n members
Vendors(n) == Join([i \in 1..n |-> <<118>> \o Itoa(i) \o <<61, 49>>], <<44>>)

\* the propagating tags "_dd.p.a" and "_dd.p.aaa...a" (a key of 234 runes)
\* with the value "0": together they do not fit in one dd= list-member
ShortTag == ddTagPrefix \o <<97>>
LongTag == ddTagPrefix \o Repeat(97, 234)

TagSets ==
    {EmptyMap,
     MapSet(EmptyMap, ShortTag, <<48>>),
     MapSet(EmptyMap, LongTag, <<48>>),
     MapSet(MapSet(EmptyMap, ShortTag, <<48>>), LongTag, <<48>>)}

\* the tracestate a local trace has inherited: none, a single vendor, and more
\* vendors than a tracestate may hold
StoredTracestates ==
    {<<>>,
     <<118, 61, 49>>,                                                   \* "v=1"
     Vendors(33)}

\* the origin of the trace: none, "rum", and one of 250 runes as an
\* x-datadog-origin header may carry
Origins == {<<>>, <<114, 117, 109>>, Repeat(97, 250)}

\* the contexts of local spans
LocalContexts ==
    {[ZeroCtx EXCEPT !.traceID = [upper |-> 0, lower |-> 1], !.spanID = 2,
                     !.hasTrace = TRUE, !.root = TRUE, !.origin = o, !.priority = p,
                     !.ptags = IF st = <<>> THEN tags
                               ELSE MapSet(tags, tracestateHeader, st)] :
        o \in Origins, tags \in TagSets, st \in StoredTracestates,
        p \in {NoPriority, [ok |-> TRUE, p |-> 2]}}

\* the tracestate headers of a W3C peer: the ones above, a dd= member followed
\* by 32 vendors, a dd= member with p: and with tags that fill it, and a dd=
\* member with the long origin
IncomingTracestates ==
    StoredTracestates
       \cup {TracestateDecided \o <<44>> \o Vendors(32),
             <<100, 100, 61, 115, 58, 50, 59, 112, 58>> \o PadHex(10, 16)       \* "dd=s:2;p:"
                \o <<59, 116, 46, 97, 58, 48, 59, 116, 46>> \o Repeat(97, 220)  \* ";t.a:0;t."
                \o <<58, 48, 44>> \o Vendors(2),                                \* ":0,"
             <<100, 100, 61, 115, 58, 50, 59, 111, 58>> \o Repeat(97, 250)}     \* "dd=s:2;o:"

\* the contexts W3C Extract returns, handed on as they are or with the
\* sampling priority changed since (updated)
RemoteContexts ==
    {[w3cExtractTextMap(W3CHeaders(1, 2, st)).ctx EXCEPT !.updated = u] :
        st \in IncomingTracestates, u \in BOOLEAN}

TracestateContexts == LocalContexts \cup RemoteContexts

InitTracestate ==
    /\ chain = <<"tracecontext">>
    /\ onlyExtractFirst = FALSE
    /\ carrier = TextMap(EmptyMap)
    /\ idx = 1
    /\ ctx \in TracestateContexts
    /\ links = <<>>
    /\ pendingBaggage = EmptyMap
    /\ pc = "enter"
    /\ ret = [ctx |-> NilCtx, err |-> ErrNone]
    /\ calls = <<>>
    /\ orig = ctx
    /\ cfgMaxTagsLen = 0
    /\ first = NoCall
    /\ ps = <<>> /\ cfgB3 = FALSE
    /\ procs = <<>>
    /\ sm = NoMutator

NextTracestate ==
    \/ InjectEnter
    \/ InjectStep
    \/ InjectFinish

SpecTracestate == InitTracestate /\ [][NextTracestate]_vars

----------------------------------------------------------------------------
(* Baggage Inject, then Extract of what it wrote: baggage alone in both lists *)

\* "key<i>" and "val<i>"
BaggageKey(i) == <<107, 101, 121>> \o Itoa(i)
BaggageVal(i) == <<118, 97, 108>> \o Itoa(i)

\* two items more than a header may hold
BagOverMaxItems == [k \in {BaggageKey(i) : i \in 0..(baggageMaxItems + 1)} |-> <<118, 97, 108>> \o Drop(k, 3)]

\* three values of a third of the byte limit each, and a short one
BagOverMaxBytes ==
    [k \in {BaggageKey(i) : i \in 0..3} |->
        CASE k = BaggageKey(0) -> <<111>>                                       \* "o"
          [] k = BaggageKey(1) -> Repeat(97, baggageMaxBytes \div 3)
          [] k = BaggageKey(2) -> Repeat(98, baggageMaxBytes \div 3)
          [] k = BaggageKey(3) -> Repeat(99, baggageMaxBytes \div 3)]

\* the baggage of the span: nothing, plain items, keys in upper case, blanks
\* inside and around, the delimiters of the header, + and %, an empty value
Bags ==
    {EmptyMap,
     MapSet(EmptyMap, <<107>>, <<118>>),                                  \* k=v
     MapSet(MapSet(EmptyMap, <<97>>, <<49>>), <<98>>, <<50>>),            \* a=1 b=2
     MapSet(EmptyMap, <<75>>, <<86, 32, 119>>),                           \* K="V w"
     MapSet(EmptyMap, <<97, 32, 98>>, <<99, 44, 100, 61, 101, 59>>),      \* "a b"="c,d=e;"
     MapSet(EmptyMap, <<107>>, <<97, 43, 98>>),                           \* k="a+b"
     MapSet(EmptyMap, <<107>>, <<49, 48, 48, 37>>),                       \* k="100%"
     MapSet(EmptyMap, <<107>>, <<37, 52, 49>>),                           \* k="%41"
     MapSet(EmptyMap, <<32, 107>>, <<118, 32>>),                          \* " k"="v "
     MapSet(EmptyMap, <<107>>, <<>>),                                     \* k=""
     MapSet(MapSet(EmptyMap, <<97>>, <<49>>), <<98>>, <<>>),              \* a=1 b=""
     BagOverMaxItems,
     BagOverMaxBytes}

InitBaggage ==
    /\ chain = <<"baggage">>
    /\ onlyExtractFirst \in BOOLEAN
    /\ carrier = TextMap(EmptyMap)
    /\ idx = 1
    /\ ctx \in {[ZeroCtx EXCEPT !.traceID = [upper |-> 0, lower |-> 1], !.spanID = 2,
                                !.hasTrace = TRUE, !.root = TRUE, !.baggage = bag] :
                   bag \in Bags}
    /\ links = <<>>
    /\ pendingBaggage = EmptyMap
    /\ pc = "enter"
    /\ ret = [ctx |-> NilCtx, err |-> ErrNone]
    /\ calls = <<>>
    /\ orig = ctx
    /\ cfgMaxTagsLen = 0
    /\ first = NoCall
    /\ ps = <<>> /\ cfgB3 = FALSE
    /\ procs = <<>>
    /\ sm = NoMutator

NextBaggage ==
    \/ InjectEnter
    \/ InjectStep
    \/ InjectFinish
    \/ ExtractInjected
    \/ ExtractBaggage
    \/ ExtractFinish

SpecBaggage == InitBaggage /\ [][NextBaggage]_vars

----------------------------------------------------------------------------
(* Extract of baggage headers, well-formed and malformed *)

\* the values of the baggage header a peer may send
BaggageHeaderValues ==
    {<<97, 61, 98, 44, 99, 61, 100>>,                                       \* "a=b,c=d"
     <<97, 61, 98, 44, 99>>,                                                \* "a=b,c"
     <<107, 101, 121, 49, 44, 107, 101, 121, 50, 61, 118, 97, 108, 117, 101, 50>>, \* "key1,key2=value2"
     <<97, 61, 98, 44, 61, 100>>,                                           \* "a=b,=d"
     <<97, 61, 98, 44, 99, 61>>,                                            \* "a=b,c="
     <<97, 61, 98, 44, 32, 61, 100>>,                                       \* "a=b, =d"
     <<97, 61, 98, 44, 99, 61, 32>>,                                        \* "a=b,c= "
     <<32, 97, 32, 61, 32, 98, 32, 44, 32, 99, 32, 61, 32, 100, 32>>,       \* " a = b , c = d "
     <<97, 61, 98, 44>>,                                                    \* "a=b,"
     <<97, 61, 49, 44, 97, 61, 50>>,                                        \* "a=1,a=2"
     <<97, 61, 98, 61, 99>>,                                                \* "a=b=c"
     <<107, 61, 37, 52, 49, 37, 50, 48, 98, 43, 99>>,                       \* "k=%41%20b+c"
     <<97>>}                                                                \* "a"

\* the carriers: with and without the Datadog headers of trace 1, with one of
\* the baggage headers or none, the header name in lower or in upper case
BaggageCarriers ==
    {TextMap(MapCopy(dd, bg)) :
        dd \in {EmptyMap, DDHeaders(1, "keep")},
        bg \in {EmptyMap}
               \cup {MapSet(EmptyMap, name, v) :
                        name \in {DefaultBaggageHeader, <<66, 97, 103, 103, 97, 103, 101>>},
                        v \in BaggageHeaderValues}}

InitBaggageExtract ==
    /\ chain \in {<<"baggage">>, <<"baggage", "datadog">>, <<"datadog", "baggage">>}
    /\ onlyExtractFirst \in BOOLEAN
    /\ carrier \in BaggageCarriers
    /\ idx = 1
    /\ ctx = NilCtx
    /\ links = <<>>
    /\ pendingBaggage = EmptyMap
    /\ pc = "loop"
    /\ ret = [ctx |-> NilCtx, err |-> ErrNone]
    /\ calls = <<>>
    /\ orig = NilCtx
    /\ cfgMaxTagsLen = 0
    /\ first = NoCall
    /\ ps = <<>> /\ cfgB3 = FALSE
    /\ procs = <<>>
    /\ sm = NoMutator

NextBaggageExtract ==
    \/ ExtractBaggage
    \/ ExtractFirst
    \/ ExtractFinish

SpecBaggageExtract == InitBaggageExtract /\ [][NextBaggageExtract]_vars

----------------------------------------------------------------------------
(* Extract under two lists that differ in where the baggage format stands *)

\* c without its baggage format
TraceFormatsOf(c) == SelectSeq(c, LAMBDA v : v # "baggage")

\* the caller builds a second propagator, whose list has the same trace
\* formats in the same order and the baggage format at another place, and
\* hands it the same carrier
ExtractReordered ==
    /\ pc = "done" /\ first = NoCall
    /\ \E c \in Chains :
          /\ c # chain
          /\ \E i \in 1..Len(c) : c[i] = "baggage"
          /\ TraceFormatsOf(c) = TraceFormatsOf(chain)
          /\ chain' = c
    /\ first' = [made |-> TRUE, carrier |-> carrier, ret |-> ret, chain |-> chain]
    /\ ctx' = NilCtx
    /\ idx' = 1
    /\ links' = <<>>
    /\ pendingBaggage' = EmptyMap
    /\ calls' = <<>>
    /\ pc' = "loop"
    /\ ret' = [ctx |-> NilCtx, err |-> ErrNone]
    /\ UNCHANGED <<sm, ps, cfgB3, procs, onlyExtractFirst, carrier, orig, cfgMaxTagsLen>>

\* the header groups of a carrier that holds a baggage header and, for each
\* trace format, nothing or a valid context of trace 1..MaxID
PresentGroupsOf(v) ==
    CASE v = "datadog" -> {EmptyMap} \cup {DDHeaders(t, "keep") : t \in 1..MaxID}
      [] v = "tracecontext" ->
            {EmptyMap, W3CHeaders(1, 1, TracestateForeign), W3CHeaders(1, 2, TracestateWithParent)}
      [] v = "b3multi" -> B3Groups
      [] v = "b3" -> B3SingleGroups
      [] v = "baggage" ->
            {MapSet(EmptyMap, DefaultBaggageHeader, <<97, 61, 98, 44, 99, 61, 100>>),  \* "a=b,c=d"
             MapSet(EmptyMap, DefaultBaggageHeader,
                    <<105, 116, 101, 109, 61, 120, 121, 122>>)}                       \* "item=xyz"

RECURSIVE PresentHeaderMaps(_, _)
PresentHeaderMaps(c, i) ==
    IF i > Len(c) THEN {EmptyMap}
    ELSE {MapCopy(a, b) : a \in PresentGroupsOf(c[i]), b \in PresentHeaderMaps(c, i + 1)}

InitBaggageOrder ==
    /\ chain \in {c \in Chains : Len(c) >= 2 /\ \E i \in 1..Len(c) : c[i] = "baggage"}
    /\ onlyExtractFirst = FALSE
    /\ carrier \in {TextMap(h) : h \in PresentHeaderMaps(chain, 1)}
    /\ idx = 1
    /\ ctx = NilCtx
    /\ links = <<>>
    /\ pendingBaggage = EmptyMap
    /\ pc = "loop"
    /\ ret = [ctx |-> NilCtx, err |-> ErrNone]
    /\ calls = <<>>
    /\ orig = NilCtx
    /\ cfgMaxTagsLen = 0
    /\ first = NoCall
    /\ ps = <<>> /\ cfgB3 = FALSE
    /\ procs = <<>>
    /\ sm = NoMutator

NextBaggageOrder ==
    \/ ExtractBaggage
    \/ ExtractFirst
    \/ ExtractLater
    \/ ExtractFinish
    \/ ExtractReordered

SpecBaggageOrder == InitBaggageOrder /\ [][NextBaggageOrder]_vars

----------------------------------------------------------------------------
(* W3C extraction of traceparent values of several lengths and versions *)

\* version-ids-flags with an optional tail, for the versions 00, 01, cc and ff,
\* flags on both sides of 0x80, the tails of the tests' future-version value
\* and of a value followed by white space, and values one character short
TraceparentInputs ==
    LET ids == HexEncoded([upper |-> 0, lower |-> 1]) \o <<45>> \o PadHex(2, 16)
        versions == {<<48, 48>>, <<48, 49>>, <<99, 99>>, <<102, 102>>}
        flags == {<<48, 48>>, <<48, 49>>, <<55, 102>>, <<56, 48>>, <<102, 102>>}
        tails == {<<>>, <<45, 119, 104, 97, 116>>, <<32>>}                \* "", "-what", " "
    IN {v \o <<45>> \o ids \o <<45>> \o f \o t : v \in versions, f \in flags, t \in tails}
          \cup {v \o <<45>> \o ids \o <<45>> \o f : v \in versions, f \in {<<48>>, <<49>>}}

InitTraceparent ==
    /\ chain = <<"tracecontext">>
    /\ onlyExtractFirst \in BOOLEAN
    /\ carrier \in {TextMap(MapSet(EmptyMap, traceparentHeader, p)) : p \in TraceparentInputs}
    /\ idx = 1
    /\ ctx = NilCtx
    /\ links = <<>>
    /\ pendingBaggage = EmptyMap
    /\ pc = "loop"
    /\ ret = [ctx |-> NilCtx, err |-> ErrNone]
    /\ calls = <<>>
    /\ orig = NilCtx
    /\ cfgMaxTagsLen = 0
    /\ first = NoCall
    /\ ps = <<>> /\ cfgB3 = FALSE
    /\ procs = <<>>
    /\ sm = NoMutator

NextTraceparent ==
    \/ ExtractFirst
    \/ ExtractFinish

SpecTraceparent == InitTraceparent /\ [][NextTraceparent]_vars

----------------------------------------------------------------------------
(* The propagators built from a propagation style *)

defaultPs(b3) ==
    <<"datadog", "tracecontext", "baggage">> \o (IF b3 THEN <<"b3multi">> ELSE <<>>)

\* the switch in the loop of getPropagators: what the name v appends to list
propagatorNamed(v, b3) ==
    CASE v = <<100, 97, 116, 97, 100, 111, 103>> -> <<"datadog">>
      [] v = <<116, 114, 97, 99, 101, 99, 111, 110, 116, 101, 120, 116>> -> <<"tracecontext">>
      [] v = <<98, 97, 103, 103, 97, 103, 101>> -> <<"baggage">>
      [] v \in {<<98, 51>>, <<98, 51, 109, 117, 108, 116, 105>>} ->
            IF ~b3 THEN <<"b3multi">> ELSE <<>>
      [] v = <<98, 51, 32, 115, 105, 110, 103, 108, 101, 32, 104, 101, 97, 100, 101, 114>> ->
            <<"b3">>
      [] OTHER -> <<>>                  \* "none" and unrecognized names: a warning

RECURSIVE propagatorsListed(_, _, _)
propagatorsListed(names, i, b3) ==
    IF i > Len(names) THEN <<>>
    ELSE propagatorNamed(ToLower(names[i]), b3) \o propagatorsListed(names, i + 1, b3)

\* getPropagators with "none" disabling the direction wherever it is listed
getPropagatorsNoneAnywhere(b3, ps0) ==
    IF ps0 = <<>> THEN defaultPs(b3)
    ELSE
    Let(Split(ToLower(ps0), 44), LAMBDA names :
        IF \E i \in 1..Len(names) : names[i] = <<110, 111, 110, 101>> THEN <<>>
        ELSE Let((IF b3 THEN <<"b3multi">> ELSE <<>>) \o propagatorsListed(names, 1, b3),
                 LAMBDA list : IF Len(list) = 0 THEN defaultPs(b3) ELSE list))

\* getPropagators with the B3 format of cfg.B3 added behind the listed ones
getPropagatorsB3Last(b3, ps0) ==
    IF ps0 = <<>> THEN defaultPs(b3)
    ELSE
    Let(ToLower(ps0), LAMBDA style :
        IF style = <<110, 111, 110, 101>> THEN <<>>
        ELSE Let(propagatorsListed(Split(style, 44), 1, b3)
                     \o (IF b3 THEN <<"b3multi">> ELSE <<>>), LAMBDA list :
                 IF Len(list) = 0 THEN defaultPs(b3) ELSE list))

\* getPropagators(cfg, ps), ps being the style that is left once the generic
\* DD_TRACE_PROPAGATION_STYLE has stood in for an empty one
getPropagators(b3, ps0) ==
    IF ps0 = <<>> THEN defaultPs(b3)
    ELSE
    Let(ToLower(ps0), LAMBDA style :
        IF style = <<110, 111, 110, 101>> THEN <<>>
        ELSE Let((IF b3 THEN <<"b3multi">> ELSE <<>>)
                     \o propagatorsListed(Split(style, 44), 1, b3), LAMBDA list :
                 IF Len(list) = 0 THEN defaultPs(b3) ELSE list))

\* NewPropagator(cfg) without explicit propagators, followed by the caller's
\* Inject of its span context or Extract from its carrier
NewPropagator ==
    /\ pc = "new"
    /\ chain' = getPropagators(cfgB3, ps)
    /\ pc' = IF orig.nil THEN "loop" ELSE "enter"
    /\ UNCHANGED <<sm, ps, cfgB3, procs, first, onlyExtractFirst, carrier, idx, ctx, links,
                   pendingBaggage, ret, calls, orig, cfgMaxTagsLen>>

\* the styles of TestNonePropagator, other mixes of "none" with names that are
\* and are not formats, and styles without "none"
Styles ==
    {<<>>,
     <<110, 111, 110, 101>>,                                          \* "none"
     <<78, 111, 78, 101>>,                                            \* "NoNe"
     <<78, 79, 78, 69>>,                                              \* "NONE"
     <<110, 111, 110, 101, 44, 98, 51>>,                              \* "none,b3"
     <<98, 51, 109, 117, 108, 116, 105, 44, 78, 111, 110, 101>>,      \* "b3multi,None"
     <<110, 111, 110, 101, 44, 100, 97, 116, 97, 100, 111, 103>>,     \* "none,datadog"
     <<68, 97, 116, 97, 100, 111, 103, 44, 110, 111, 110, 101, 44,
       116, 114, 97, 99, 101, 99, 111, 110, 116, 101, 120, 116>>,     \* "Datadog,none,tracecontext"
     <<98, 97, 103, 103, 97, 103, 101, 44, 110, 111, 110, 101, 44,
       98, 51, 32, 115, 105, 110, 103, 108, 101, 32, 104, 101, 97, 100, 101, 114>>,
                                                                      \* "baggage,none,b3 single header"
     <<110, 111, 110, 101, 44, 110, 111, 110, 101>>,                  \* "none,none"
     <<110, 111, 110, 101, 44, 102, 111, 111>>,                       \* "none,foo"
     <<110, 111, 110, 101, 44>>,                                      \* "none,"
     <<32, 110, 111, 110, 101>>,                                      \* " none"
     <<100, 97, 116, 97, 100, 111, 103>>,                             \* "datadog"
     <<116, 114, 97, 99, 101, 99, 111, 110, 116, 101, 120, 116, 44,
       100, 97, 116, 97, 100, 111, 103>>}                             \* "tracecontext,datadog"

StyleContexts ==
    {c \in SpanContexts : c.spanID # 0 /\ c.traceID \in {ZeroTraceID, [upper |-> 0, lower |-> 1]}}

StyleCarriers ==
    {TextMap(MapCopy(d, MapCopy(w, b))) :
        d \in {EmptyMap, DDHeaders(1, "keep")},
        w \in {EmptyMap, W3CHeaders(1, 2, TracestateForeign), W3CHeaders(2, 2, TracestateForeign)},
        b \in {EmptyMap, MapSet(EmptyMap, DefaultBaggageHeader, <<97, 61, 98>>)}}

InitStyle ==
    /\ ps \in Styles
    /\ cfgB3 \in BOOLEAN
    /\ chain = <<>>
    /\ onlyExtractFirst = FALSE
    /\ \/ ctx \in StyleContexts /\ carrier = TextMap(EmptyMap)
       \/ ctx = NilCtx /\ carrier \in StyleCarriers
    /\ idx = 1
    /\ links = <<>>
    /\ pendingBaggage = EmptyMap
    /\ pc = "new"
    /\ ret = [ctx |-> NilCtx, err |-> ErrNone]
    /\ calls = <<>>
    /\ orig = ctx
    /\ cfgMaxTagsLen = 128
    /\ first = NoCall
    /\ procs = <<>>
    /\ sm = NoMutator

NextStyle ==
    \/ NewPropagator
    \/ InjectEnter
    \/ InjectStep
    \/ InjectFinish
    \/ ExtractBaggage
    \/ ExtractFirst
    \/ ExtractLater
    \/ ExtractFinish

SpecStyle == InitStyle /\ [][NextStyle]_vars

----------------------------------------------------------------------------
(* Concurrent Inject of one span context by several goroutines *)

\* The running goroutine has the registers pc, idx, carrier, ret and calls; the
\* others are kept in procs. The span context ctx is shared by all of them.
Registers == [pc |-> pc, idx |-> idx, carrier |-> carrier, ret |-> ret, calls |-> calls]

\* the scheduler lets another goroutine, which has not returned, run
Yield ==
    /\ \E i \in 1..Len(procs) :
          /\ procs[i].pc # "done"
          /\ procs' = [procs EXCEPT ![i] = Registers]
          /\ pc' = procs[i].pc
          /\ idx' = procs[i].idx
          /\ carrier' = procs[i].carrier
          /\ ret' = procs[i].ret
          /\ calls' = procs[i].calls
    /\ UNCHANGED <<sm, ps, cfgB3, first, chain, onlyExtractFirst, ctx, links, pendingBaggage,
                   orig, cfgMaxTagsLen>>

\* The start of propagator.injectTextMap and of propagatorW3c.injectTextMap.
\* The trace's own methods are atomic (they hold the trace's lock);
\* setPropagatingTag(ctx, k, v) first tests ctx.trace for nil and then assigns
\* a new trace to it, without any lock: the goroutine that found it nil goes
\* on to assign.
InjectTraceID128 ==
    /\ pc = "inject" /\ idx <= Len(chain)
    /\ chain[idx] \in {"datadog", "tracecontext"}
    /\ IF Empty(ctx.traceID) \/ ctx.spanID = 0
       THEN Return(NilCtx, ErrInvalidSpanContext) /\ UNCHANGED ctx
       ELSE IF HasUpper(ctx.traceID) /\ ~ctx.hasTrace
       THEN pc' = "newtrace" /\ UNCHANGED <<ctx, ret>>
       ELSE ctx' = injectTraceID128(ctx) /\ pc' = "write" /\ UNCHANGED ret
    /\ calls' = Append(calls, chain[idx])
    /\ UNCHANGED <<sm, ps, cfgB3, procs, first, chain, onlyExtractFirst, carrier, idx, links,
                   pendingBaggage, orig, cfgMaxTagsLen>>

\* ctx.trace = newTrace(): whatever trace another goroutine has assigned and
\* tagged since the test for nil is replaced by an empty one
InjectNewTrace ==
    /\ pc = "newtrace"
    /\ ctx' = [ctx EXCEPT !.hasTrace = TRUE, !.priority = NoPriority, !.ptags = EmptyMap,
                          !.properr = <<>>, !.root = FALSE]
    /\ pc' = "settag"
    /\ UNCHANGED <<sm, ps, cfgB3, procs, first, chain, onlyExtractFirst, carrier, idx, links,
                   pendingBaggage, ret, calls, orig, cfgMaxTagsLen>>

\* ctx.trace.setPropagatingTag(k, v) on the trace that ctx holds by now
InjectSetTag ==
    /\ pc = "settag"
    /\ ctx' = setPropagatingTag(ctx, keyTraceID128, UpperHex(ctx.traceID))
    /\ pc' = "write"
    /\ UNCHANGED <<sm, ps, cfgB3, procs, first, chain, onlyExtractFirst, carrier, idx, links,
                   pendingBaggage, ret, calls, orig, cfgMaxTagsLen>>

\* the rest of the injector: the headers are written from the context as it
\* is by now
InjectWrite ==
    /\ pc = "write"
    /\ \E tagKeys \in KeyOrders(TagKeys(ctx)) :
          Let(IF chain[idx] = "datadog"
              THEN ddWriteHeaders(ctx, carrier.h, tagKeys, cfgMaxTagsLen)
              ELSE w3cWriteHeaders(ctx, SamplingPriority(ctx), carrier.h, tagKeys), LAMBDA r :
              /\ carrier' = [carrier EXCEPT !.h = r.h]
              /\ ctx' = r.ctx)
    /\ idx' = idx + 1
    /\ pc' = "inject"
    /\ UNCHANGED <<sm, ps, cfgB3, procs, first, chain, onlyExtractFirst, links, pendingBaggage,
                   ret, calls, orig, cfgMaxTagsLen>>

\* valid contexts, with and without a trace, with 64-bit and 128-bit trace ids
ConcurrentContexts ==
    {c \in SpanContexts : c.spanID # 0 /\ c.traceID.lower = 1}

\* Goroutines goroutines are about to call Inject with the same span context
\* and a carrier each (TestPropagatingTagsConcurrency starts five)
InitConcurrent ==
    /\ chain \in {<<"datadog">>, <<"tracecontext">>, <<"datadog", "tracecontext">>,
                  <<"tracecontext", "datadog">>}
    /\ onlyExtractFirst = FALSE
    /\ carrier = TextMap(EmptyMap)
    /\ idx = 1
    /\ ctx \in ConcurrentContexts
    /\ links = <<>>
    /\ pendingBaggage = EmptyMap
    /\ pc = "enter"
    /\ ret = [ctx |-> NilCtx, err |-> ErrNone]
    /\ calls = <<>>
    /\ orig = ctx
    /\ cfgMaxTagsLen = 128
    /\ first = NoCall
    /\ ps = <<>> /\ cfgB3 = FALSE
    /\ procs = [i \in 1..(Goroutines - 1) |-> Registers]
    /\ sm = NoMutator

NextConcurrent ==
    \/ InjectEnter
    \/ InjectTraceID128
    \/ InjectNewTrace
    \/ InjectSetTag
    \/ InjectWrite
    \/ InjectFinish
    \/ Yield

SpecConcurrent == InitConcurrent /\ [][NextConcurrent]_vars

----------------------------------------------------------------------------
(* The x-datadog-tags value marshalled from a tag map and unmarshalled again *)

TagKeyChoices ==
    {keyDecisionMaker,                                                  \* "_dd.p.dm"
     <<116, 101, 115, 116, 65>>,                                        \* "testA"
     <<97, 32, 98>>,                                                    \* "a b"
     tracestateHeader,
     traceparentHeader,
     <<107, 44>>,                                                       \* "k,"
     <<107, 101, 121, 45, 111, 102, 45, 116, 119, 101, 110, 116, 121, 45,
       114, 117, 110, 101, 115, 33>>}                                   \* "key-of-twenty-runes!"

TagValueChoices ==
    {<<45, 52>>,                                                        \* "-4"
     <<116, 101, 115, 116, 66>>,                                        \* "testB"
     <<118, 61, 49>>,                                                   \* "v=1"
     <<233>>}                                                           \* not ASCII

\* the propagating-tag maps of at most MaxTags entries
TagMaps ==
    UNION {[S -> TagValueChoices] :
              S \in {T \in SUBSET TagKeyChoices : Cardinality(T) <= MaxTags}}

\* FuzzMarshalPropagatingTags: a sending context whose trace holds the tags
InitTags ==
    /\ ctx \in {[ZeroCtx EXCEPT !.hasTrace = TRUE, !.ptags = m] : m \in TagMaps}
    /\ orig = ctx
    /\ cfgMaxTagsLen \in {16, 128}
    /\ carrier = TextMap(EmptyMap)
    /\ pc = "marshal"
    /\ chain = <<"datadog">>
    /\ onlyExtractFirst = FALSE
    /\ idx = 1
    /\ links = <<>>
    /\ pendingBaggage = EmptyMap
    /\ ret = [ctx |-> NilCtx, err |-> ErrNone]
    /\ calls = <<>>
    /\ first = NoCall
    /\ ps = <<>> /\ cfgB3 = FALSE
    /\ procs = <<>>
    /\ sm = NoMutator

\* marshal := propagator.marshalPropagatingTags(sendCtx)
MarshalTags ==
    /\ pc = "marshal"
    /\ \E keys \in KeyOrders(DOMAIN ctx.ptags) :
          Let(marshalPropagatingTags(ctx, keys, cfgMaxTagsLen), LAMBDA r :
              /\ carrier' = [carrier EXCEPT !.h = MapSet(EmptyMap, traceTagsHeader, r.s)]
              /\ ctx' = r.ctx)
    /\ pc' = "unmarshal"
    /\ UNCHANGED <<sm, ps, cfgB3, procs, first, chain, onlyExtractFirst, idx, links,
                   pendingBaggage, ret, calls, orig, cfgMaxTagsLen>>

\* unmarshalPropagatingTags(recvCtx, marshal), recvCtx having a new trace
UnmarshalTags ==
    /\ pc = "unmarshal"
    /\ Return(unmarshalPropagatingTags([ZeroCtx EXCEPT !.hasTrace = TRUE],
                                       carrier.h[traceTagsHeader]),
              ErrNone)
    /\ UNCHANGED <<sm, ps, cfgB3, procs, first, chain, onlyExtractFirst, carrier, idx, ctx, links,
                   pendingBaggage, calls, orig, cfgMaxTagsLen>>

NextTags ==
    \/ MarshalTags
    \/ UnmarshalTags

SpecTags == InitTags /\ [][NextTags]_vars

----------------------------------------------------------------------------
(* A sanitizer applied to a string, and again to what it returned *)

\* runes of every class that the three functions tell apart
SanitizerRunes == {97, 95, 61, 44, 126, 59, 32, 1, 233}

SanitizerStrings == UNION {[1..n -> SanitizerRunes] : n \in 0..MaxLen}

\* sm.Mutate(fn, s) for the function named f
MutateWith(f, s) ==
    CASE f = "key" -> Mutate(keyDisallowedFn, s)
      [] f = "value" -> Mutate(valueDisallowedFn, s)
      [] f = "origin" -> Mutate(originDisallowedFn, s)

\* sm.Mutate of the string, then of the string that Mutate returned
MutateString ==
    /\ sm.fn # "" /\ Len(sm.rs) < 2
    /\ sm' = [sm EXCEPT !.rs = Append(@, MutateWith(sm.fn, IF sm.rs = <<>> THEN sm.s
                                                           ELSE sm.rs[Len(sm.rs)]))]
    /\ UNCHANGED <<ps, cfgB3, procs, first, chain, onlyExtractFirst, carrier, idx, ctx, links,
                   pendingBaggage, pc, ret, calls, orig, cfgMaxTagsLen>>

InitSanitize ==
    /\ sm \in [fn : {"key", "value", "origin"}, s : SanitizerStrings, rs : {<<>>}]
    /\ chain = <<>>
    /\ onlyExtractFirst = FALSE
    /\ carrier = TextMap(EmptyMap)
    /\ idx = 1
    /\ ctx = NilCtx
    /\ links = <<>>
    /\ pendingBaggage = EmptyMap
    /\ pc = "done"
    /\ ret = [ctx |-> NilCtx, err |-> ErrNone]
    /\ calls = <<>>
    /\ orig = NilCtx
    /\ cfgMaxTagsLen = 0
    /\ first = NoCall
    /\ ps = <<>> /\ cfgB3 = FALSE
    /\ procs = <<>>

NextSanitize == MutateString

SpecSanitize == InitSanitize /\ [][NextSanitize]_vars

----------------------------------------------------------------------------
(* Extract of one trace id from a first extractor and from the W3C extractor *)

\* the Datadog and B3 headers of trace 4, span 1
WinnerHeaders ==
    LET ids == MapCopy(MapSet(MapSet(EmptyMap, DefaultTraceIDHeader, <<52>>),
                         DefaultParentIDHeader, <<49>>), 
                      MapSet(MapSet(EmptyMap, b3TraceIDHeader, PadHex(4, 16)),
                             b3SpanIDHeader, PadHex(1, 16)))
    IN {MapCopy(MapCopy(MapCopy(ids, o), p), t) :
           o \in {EmptyMap, MapSet(EmptyMap, originHeader, <<115, 121, 110, 116, 104, 101, 116, 105, 99, 115>>)},
           p \in {EmptyMap, MapSet(EmptyMap, DefaultPriorityHeader, <<50>>),
                  MapSet(EmptyMap, DefaultPriorityHeader, <<45, 49>>)},
           t \in {EmptyMap, MapSet(EmptyMap, traceTagsHeader, <<95, 100, 100, 46, 112, 46, 100, 109, 61, 45, 52>>)}}

\* "dd=s:2;o:rum;t.usr:x,foo=1", "foo=1" and " foo=1 ,dd=s:0;o:rum, bar=2"
PropagatedTracestates ==
    {<<100, 100, 61, 115, 58, 50, 59, 111, 58, 114, 117, 109, 59, 116, 46, 117, 115, 114, 58, 120, 44, 102, 111, 111, 61, 49>>,
     <<102, 111, 111, 61, 49>>,
     <<32, 102, 111, 111, 61, 49, 32, 44, 100, 100, 61, 115, 58, 48, 59, 111, 58, 114, 117, 109, 44, 32, 98, 97, 114, 61, 50>>}

\* the traceparent of trace 4, span 1 or 2, with no tracestate, the dd= member
\* first, vendors only, and the dd= member between vendors with blanks around
PropagatedHeaders ==
    {MapCopy(MapSet(EmptyMap, traceparentHeader, TraceparentOf(4, sp, <<48, 49>>)), st) :
        sp \in 1..2,
        st \in {EmptyMap} \cup
               {MapSet(EmptyMap, tracestateHeader, v) : v \in PropagatedTracestates}}

InitPropagate ==
    /\ chain \in {<<"datadog", "tracecontext">>, <<"b3multi", "tracecontext">>}
    /\ onlyExtractFirst = FALSE
    /\ carrier \in {TextMap(MapCopy(w, p)) : w \in WinnerHeaders, p \in PropagatedHeaders}
    /\ idx = 1
    /\ ctx = NilCtx
    /\ links = <<>>
    /\ pendingBaggage = EmptyMap
    /\ pc = "loop"
    /\ ret = [ctx |-> NilCtx, err |-> ErrNone]
    /\ calls = <<>>
    /\ orig = NilCtx
    /\ cfgMaxTagsLen = 0
    /\ first = NoCall
    /\ ps = <<>> /\ cfgB3 = FALSE
    /\ procs = <<>>
    /\ sm = NoMutator

NextPropagate ==
    \/ ExtractFirst
    \/ ExtractLater
    \/ ExtractFinish

SpecPropagate == InitPropagate /\ [][NextPropagate]_vars

----------------------------------------------------------------------------
(* W3C Extract of a sampled flag and a dd= member with or without an s entry *)

\* the s entry of the dd= member: none, an integer, or a text that is none
\* ("", "x", "1.5")
SEntries ==
    {[kind |-> "none", n |-> 0, text |-> <<>>]}
        \cup {[kind |-> "int", n |-> n, text |-> Itoa(n)] : n \in (-MaxPriority)..MaxPriority}
        \cup {[kind |-> "text", n |-> 0, text |-> t] : t \in {<<>>, <<120>>, <<49, 46, 53>>}}

\* the sampled flag f, the s entry, and the place of the entry t.dm:-4, if any
PriorityInputs == [f : 0..1, s : SEntries, dm : {"none", "before", "after"}]

\* "dd=o:rum[;t.dm:-4][;s:<text>][;t.dm:-4],foo=1"
TracestateOf(in) ==
    <<100, 100, 61, 111, 58, 114, 117, 109>>
        \o (IF in.dm = "before" THEN <<59, 116, 46, 100, 109, 58, 45, 52>> ELSE <<>>)
        \o (IF in.s.kind = "none" THEN <<>> ELSE <<59, 115, 58>> \o in.s.text)
        \o (IF in.dm = "after" THEN <<59, 116, 46, 100, 109, 58, 45, 52>> ELSE <<>>)
        \o <<44, 102, 111, 111, 61, 49>>

PriorityCarrier(in) ==
    TextMap(MapSet(MapSet(EmptyMap, traceparentHeader,
                          TraceparentOf(1, 2, <<48, 48 + in.f>>)),
                   tracestateHeader, TracestateOf(in)))

InitPriority ==
    /\ chain = <<"tracecontext">>
    /\ onlyExtractFirst \in BOOLEAN
    /\ carrier \in {PriorityCarrier(in) : in \in PriorityInputs}
    /\ idx = 1
    /\ ctx = NilCtx
    /\ links = <<>>
    /\ pendingBaggage = EmptyMap
    /\ pc = "loop"
    /\ ret = [ctx |-> NilCtx, err |-> ErrNone]
    /\ calls = <<>>
    /\ orig = NilCtx
    /\ cfgMaxTagsLen = 0
    /\ first = NoCall
    /\ ps = <<>> /\ cfgB3 = FALSE
    /\ procs = <<>>
    /\ sm = NoMutator

NextPriority ==
    \/ ExtractFirst
    \/ ExtractFinish

SpecPriority == InitPriority /\ [][NextPriority]_vars

----------------------------------------------------------------------------
(* W3C Extract of a version-00 traceparent with each of the 256 flags *)

\* 0-9 and a-f
HexRunes == (48..57) \cup (97..102)

InitFlags ==
    /\ chain = <<"tracecontext">>
    /\ onlyExtractFirst \in BOOLEAN
    /\ carrier \in {TextMap(MapSet(EmptyMap, traceparentHeader,
                                   TraceparentOf(1, 2, <<hi, lo>>))) :
                       hi \in HexRunes, lo \in HexRunes}
    /\ idx = 1
    /\ ctx = NilCtx
    /\ links = <<>>
    /\ pendingBaggage = EmptyMap
    /\ pc = "loop"
    /\ ret = [ctx |-> NilCtx, err |-> ErrNone]
    /\ calls = <<>>
    /\ orig = NilCtx
    /\ cfgMaxTagsLen = 0
    /\ first = NoCall
    /\ ps = <<>> /\ cfgB3 = FALSE
    /\ procs = <<>>
    /\ sm = NoMutator

NextFlags ==
    \/ ExtractFirst
    \/ ExtractFinish

SpecFlags == InitFlags /\ [][NextFlags]_vars

----------------------------------------------------------------------------
(* Extract by one trace format of absent, well-formed and malformed ids *)

\* texts that are numbers in no base: "zz", "1x", "g", "0x1"
BadNumbers == {<<122, 122>>, <<49, 120>>, <<103>>, <<48, 120, 49>>}

\* bad, filled with zeros on the left up to n characters
PadBad(bad, n) == Repeat(48, n - Len(bad)) \o bad

\* what the carrier holds: nothing, well-formed ids, a malformed trace id or a
\* malformed span id
MalformedInputs ==
    [format : TraceFormats, kind : {"absent", "valid"}, bad : {<<122, 122>>}]
        \cup [format : TraceFormats, kind : {"trace", "span"}, bad : BadNumbers]

\* the ids of in as the format writes them, trace id 1 and span id 2 when they
\* are well formed
IDTexts(in) ==
    CASE in.format = "datadog" ->
            [t |-> IF in.kind = "trace" THEN in.bad ELSE <<49>>,
             s |-> IF in.kind = "span" THEN in.bad ELSE <<50>>]
      [] in.format \in {"b3multi", "b3"} ->
            [t |-> IF in.kind = "trace" THEN PadBad(in.bad, 16) ELSE PadHex(1, 16),
             s |-> IF in.kind = "span" THEN PadBad(in.bad, 16) ELSE PadHex(2, 16)]
      [] in.format = "tracecontext" ->
            [t |-> IF in.kind = "trace" THEN PadBad(in.bad, 32) ELSE PadHex(1, 32),
             s |-> IF in.kind = "span" THEN PadBad(in.bad, 16) ELSE PadHex(2, 16)]

MalformedCarrier(in) ==
    IF in.kind = "absent" THEN TextMap(EmptyMap)
    ELSE TextMap(
        CASE in.format = "datadog" ->
                MapSet(MapSet(EmptyMap, DefaultTraceIDHeader, IDTexts(in).t),
                       DefaultParentIDHeader, IDTexts(in).s)
          [] in.format = "b3multi" ->
                MapSet(MapSet(EmptyMap, b3TraceIDHeader, IDTexts(in).t),
                       b3SpanIDHeader, IDTexts(in).s)
          [] in.format = "b3" ->
                MapSet(EmptyMap, b3SingleHeader,
                       IDTexts(in).t \o <<45>> \o IDTexts(in).s \o <<45, 49>>)
          [] in.format = "tracecontext" ->
                MapSet(EmptyMap, traceparentHeader,
                       <<48, 48, 45>> \o IDTexts(in).t \o <<45>> \o IDTexts(in).s
                           \o <<45, 48, 49>>))

InitMalformed ==
    /\ \E in \in MalformedInputs :
          /\ chain = <<in.format>>
          /\ carrier = MalformedCarrier(in)
    /\ onlyExtractFirst \in BOOLEAN
    /\ idx = 1
    /\ ctx = NilCtx
    /\ links = <<>>
    /\ pendingBaggage = EmptyMap
    /\ pc = "loop"
    /\ ret = [ctx |-> NilCtx, err |-> ErrNone]
    /\ calls = <<>>
    /\ orig = NilCtx
    /\ cfgMaxTagsLen = 0
    /\ first = NoCall
    /\ ps = <<>> /\ cfgB3 = FALSE
    /\ procs = <<>>
    /\ sm = NoMutator

NextMalformed ==
    \/ ExtractFirst
    \/ ExtractFinish

SpecMalformed == InitMalformed /\ [][NextMalformed]_vars

----------------------------------------------------------------------------
(* Datadog Inject of propagating tags around MaxTagsHeaderLen *)

\* no tag, "_dd.p.dm" and "_dd.p.a" with the values "-4" and "xyz"
SizedTagMaps ==
    UNION {[S -> {<<45, 52>>, <<120, 121, 122>>}] : S \in SUBSET {keyDecisionMaker, <<95, 100, 100, 46, 112, 46, 97>>}}

\* the limits around the 11 characters of _dd.p.dm=-4 and the 23 of
\* _dd.p.dm=-4,_dd.p.a=xyz, and the default
SizedMaxTagsHeaderLens == {9, 10, 11, 20, 21, 23, 128}

InitMaxTags ==
    /\ chain = <<"datadog">>
    /\ onlyExtractFirst = FALSE
    /\ carrier = TextMap(EmptyMap)
    /\ idx = 1
    /\ ctx \in {[ZeroCtx EXCEPT !.traceID = [upper |-> 0, lower |-> 1], !.spanID = 2,
                                !.hasTrace = TRUE, !.root = TRUE,
                                !.priority = [ok |-> TRUE, p |-> 1],
                                !.ptags = m] : m \in SizedTagMaps}
    /\ links = <<>>
    /\ pendingBaggage = EmptyMap
    /\ pc = "enter"
    /\ ret = [ctx |-> NilCtx, err |-> ErrNone]
    /\ calls = <<>>
    /\ orig = ctx
    /\ cfgMaxTagsLen \in SizedMaxTagsHeaderLens
    /\ first = NoCall
    /\ ps = <<>> /\ cfgB3 = FALSE
    /\ procs = <<>>
    /\ sm = NoMutator

NextMaxTags ==
    \/ InjectEnter
    \/ InjectStep
    \/ InjectFinish

SpecMaxTags == InitMaxTags /\ [][NextMaxTags]_vars

----------------------------------------------------------------------------
(* W3C Inject of a local context that has inherited a tracestate *)

\* the tracestate inherited: none, two vendors, blanks and a tab around them,
\* two dd= members, a dd= member after a blank, one before a blank, one alone
OldTracestates ==
    {<<>>,
     <<102, 111, 111, 61, 49, 44, 98, 97, 114, 61, 50>>,   \* "foo=1,bar=2"
     <<32, 102, 111, 111, 61, 49, 32, 44, 9, 98, 97, 114, 61, 50>>,   \* " foo=1 ,\tbar=2"
     <<100, 100, 61, 115, 58, 49, 44, 102, 111, 111, 61, 49, 44, 100, 100, 61, 115, 58, 50>>,   \* "dd=s:1,foo=1,dd=s:2"
     <<102, 111, 111, 61, 49, 44, 32, 100, 100, 61, 115, 58, 49>>,   \* "foo=1, dd=s:1"
     <<102, 111, 111, 61, 49, 44, 100, 100, 61, 115, 58, 49, 32, 44, 98, 97, 114, 61, 50>>,   \* "foo=1,dd=s:1 ,bar=2"
     <<100, 100, 61, 115, 58, 50>>}   \* "dd=s:2"

ComposeContexts ==
    {[ZeroCtx EXCEPT !.traceID = [upper |-> 0, lower |-> 1], !.spanID = 2,
                     !.hasTrace = TRUE, !.root = TRUE, !.origin = o, !.priority = p,
                     !.ptags = IF st = <<>> THEN tags
                               ELSE MapSet(tags, tracestateHeader, st)] :
        o \in {<<>>, <<114, 117, 109>>},
        tags \in {EmptyMap, MapSet(EmptyMap, ddTagPrefix \o <<117, 115, 114>>, <<120>>)},
        st \in OldTracestates,
        p \in {NoPriority, [ok |-> TRUE, p |-> 2], [ok |-> TRUE, p |-> -1]}}

InitCompose ==
    /\ chain = <<"tracecontext">>
    /\ onlyExtractFirst = FALSE
    /\ carrier = TextMap(EmptyMap)
    /\ idx = 1
    /\ ctx \in ComposeContexts
    /\ links = <<>>
    /\ pendingBaggage = EmptyMap
    /\ pc = "enter"
    /\ ret = [ctx |-> NilCtx, err |-> ErrNone]
    /\ calls = <<>>
    /\ orig = ctx
    /\ cfgMaxTagsLen = 0
    /\ first = NoCall
    /\ ps = <<>> /\ cfgB3 = FALSE
    /\ procs = <<>>
    /\ sm = NoMutator

NextCompose ==
    \/ InjectEnter
    \/ InjectStep
    \/ InjectFinish

SpecCompose == InitCompose /\ [][NextCompose]_vars

----------------------------------------------------------------------------
(* Extract from a carrier whose traceparent has the span id zero *)

\* the flags of the traceparent: "00", "01" and "zz"
ZeroSpanFlags == {<<48, 48>>, <<48, 49>>, <<122, 122>>}

\* the carrier: a traceparent of trace id (upper, t) and span id zero, and
\* the headers of another format, of trace id 1, when present
ZeroSpanInputs ==
    [other : {"datadog", "b3multi", "b3"}, t : 1..2, upper : 0..1,
     flags : ZeroSpanFlags, present : BOOLEAN]

ZeroSpanTraceparent(in) ==
    <<48, 48, 45>> \o PadHex(in.upper, 16) \o PadHex(in.t, 16) \o <<45>>
        \o PadHex(0, 16) \o <<45>> \o in.flags

OtherHeaders(v) ==
    CASE v = "datadog" -> DDHeaders(1, "keep")
      [] v = "b3multi" -> B3Headers(1)
      [] v = "b3" -> MapSet(EmptyMap, b3SingleHeader,
                            PadHex(1, 16) \o <<45>> \o PadHex(3, 16) \o <<45, 49>>)

ZeroSpanCarrier(in) ==
    TextMap(MapSet(IF in.present THEN OtherHeaders(in.other) ELSE EmptyMap,
                   traceparentHeader, ZeroSpanTraceparent(in)))

InitZeroSpan ==
    /\ \E in \in ZeroSpanInputs :
          /\ chain = <<"tracecontext", in.other>>
          /\ carrier = ZeroSpanCarrier(in)
    /\ onlyExtractFirst \in BOOLEAN
    /\ idx = 1
    /\ ctx = NilCtx
    /\ links = <<>>
    /\ pendingBaggage = EmptyMap
    /\ pc = "loop"
    /\ ret = [ctx |-> NilCtx, err |-> ErrNone]
    /\ calls = <<>>
    /\ orig = NilCtx
    /\ cfgMaxTagsLen = 0
    /\ first = NoCall
    /\ ps = <<>> /\ cfgB3 = FALSE
    /\ procs = <<>>
    /\ sm = NoMutator

NextZeroSpan ==
    \/ ExtractFirst
    \/ ExtractFinish

SpecZeroSpan == InitZeroSpan /\ [][NextZeroSpan]_vars

----------------------------------------------------------------------------
(* W3C Inject of local and remote contexts, with and without a reparent id *)

\* no tag, _dd.p.dm = "-4", and _dd.p.dm with _dd.p.usr = "x"
MemberTags ==
    {EmptyMap,
     MapSet(EmptyMap, ddTagPrefix \o <<100, 109>>, <<45, 52>>),
     MapSet(MapSet(EmptyMap, ddTagPrefix \o <<100, 109>>, <<45, 52>>),
            ddTagPrefix \o <<117, 115, 114>>, <<120>>)}

\* the reparent id: none and "0123456789abcdef"
ReparentIDs == {<<>>, <<48, 49, 50, 51, 52, 53, 54, 55, 56, 57, 97, 98, 99, 100, 101, 102>>}

\* contexts of trace id 1 and span id 2; the remote ones have had their
\* sampling priority changed since they were extracted
MemberContexts ==
    {[ZeroCtx EXCEPT !.traceID = [upper |-> 0, lower |-> 1], !.spanID = 2,
                     !.hasTrace = TRUE, !.root = ~r, !.isRemote = r, !.updated = r,
                     !.reparentID = rid, !.origin = o, !.priority = p,
                     !.ptags = tags] :
        r \in BOOLEAN, rid \in ReparentIDs, o \in {<<>>, <<114, 117, 109>>},
        tags \in MemberTags,
        p \in {NoPriority, [ok |-> TRUE, p |-> 2], [ok |-> TRUE, p |-> -1]}}

InitMember ==
    /\ chain = <<"tracecontext">>
    /\ onlyExtractFirst = FALSE
    /\ carrier = TextMap(EmptyMap)
    /\ idx = 1
    /\ ctx \in MemberContexts
    /\ links = <<>>
    /\ pendingBaggage = EmptyMap
    /\ pc = "enter"
    /\ ret = [ctx |-> NilCtx, err |-> ErrNone]
    /\ calls = <<>>
    /\ orig = ctx
    /\ cfgMaxTagsLen = 0
    /\ first = NoCall
    /\ ps = <<>> /\ cfgB3 = FALSE
    /\ procs = <<>>
    /\ sm = NoMutator

NextMember ==
    \/ InjectEnter
    \/ InjectStep
    \/ InjectFinish

SpecMember == InitMember /\ [][NextMember]_vars

----------------------------------------------------------------------------
(* The _dd.p.tid tag through Inject and through Datadog Extract *)

\* the _dd.p.tid tag of the context before Inject: the upper half 1, the
\* upper half 5, and "xyz"
StaleTIDs == {PadHex(1, 16), PadHex(5, 16), <<120, 121, 122>>}

\* the contexts handed to Inject: trace id (upper, 1), span id 2, without a
\* trace, or with a trace that has the tag or not
TIDContexts ==
    {[ZeroCtx EXCEPT !.traceID = [upper |-> u, lower |-> 1], !.spanID = 2] : u \in 0..1}
       \cup {[ZeroCtx EXCEPT !.traceID = [upper |-> u, lower |-> 1], !.spanID = 2,
                             !.hasTrace = TRUE, !.root = TRUE, !.ptags = tags] :
                u \in 0..1,
                tags \in {EmptyMap} \cup {MapSet(EmptyMap, keyTraceID128, v) : v \in StaleTIDs}}

\* the values of _dd.p.tid in x-datadog-tags: 15 digits, no hex digit, an
\* upper-case digit, 17 digits, and the upper halves 1 and 10
IncomingTIDs ==
    {<<48, 48, 48, 48, 48, 48, 48, 48, 48, 48, 48, 48, 48, 48, 49>>,
     <<88, 88, 88, 88, 88, 88, 88, 88, 88, 88, 88, 88, 88, 88, 88, 88>>,
     <<48, 48, 48, 48, 48, 48, 48, 48, 48, 48, 48, 48, 48, 48, 48, 65>>,
     <<48, 48, 48, 48, 48, 48, 48, 48, 48, 48, 48, 48, 48, 48, 48, 48, 49>>,
     <<48, 48, 48, 48, 48, 48, 48, 48, 48, 48, 48, 48, 48, 48, 48, 49>>,
     <<48, 48, 48, 48, 48, 48, 48, 48, 48, 48, 48, 48, 48, 48, 48, 97>>}

\* x-datadog-tags with the tag alone or after _dd.p.dm=-4
TIDTagsHeader(v, withDM) ==
    (IF withDM THEN keyDecisionMaker \o <<61, 45, 52, 44>> ELSE <<>>)
        \o keyTraceID128 \o <<61>> \o v

TIDCarriers ==
    {TextMap(MapSet(MapSet(MapSet(EmptyMap, DefaultTraceIDHeader, <<49>>),
                           DefaultParentIDHeader, <<50>>),
                    traceTagsHeader, TIDTagsHeader(v, withDM))) :
        v \in IncomingTIDs, withDM \in BOOLEAN}

InitTID ==
    /\ \/ /\ pc = "enter"
          /\ chain \in {<<"datadog">>, <<"tracecontext">>, <<"datadog", "tracecontext">>}
          /\ ctx \in TIDContexts
          /\ orig = ctx
          /\ carrier = TextMap(EmptyMap)
          /\ cfgMaxTagsLen \in {0, 10, 128}
          /\ onlyExtractFirst = FALSE
       \/ /\ pc = "loop"
          /\ chain = <<"datadog">>
          /\ ctx = NilCtx
          /\ orig = NilCtx
          /\ carrier \in TIDCarriers
          /\ cfgMaxTagsLen = 0
          /\ onlyExtractFirst \in BOOLEAN
    /\ idx = 1
    /\ links = <<>>
    /\ pendingBaggage = EmptyMap
    /\ ret = [ctx |-> NilCtx, err |-> ErrNone]
    /\ calls = <<>>
    /\ first = NoCall
    /\ ps = <<>> /\ cfgB3 = FALSE
    /\ procs = <<>>
    /\ sm = NoMutator

NextTID ==
    \/ InjectEnter
    \/ InjectStep
    \/ InjectFinish
    \/ ExtractFirst
    \/ ExtractFinish

SpecTID == InitTID /\ [][NextTID]_vars

----------------------------------------------------------------------------
(* Datadog Extract: which of its headers are there and what they hold *)

\* stands for a header that is not in the carrier
Absent == <<0>>

\* the values of x-datadog-trace-id and x-datadog-parent-id: "0", "3", "A"
DDIDTexts == {Absent, <<48>>, <<51>>, <<65>>}

\* the values of x-datadog-sampling-priority: "1", "-1", "x"
DDPriorityTexts == {Absent, <<49>>, <<45, 49>>, <<120>>}

\* the values of x-datadog-origin: "synthetics", "rum"
DDOriginTexts == {Absent, synthetics, <<114, 117, 109>>}

\* the values of x-datadog-tags: "_dd.p.tid=0000000000000001"
DDTagsTexts == {Absent, keyTraceID128 \o <<61>> \o PadHex(1, 16)}

DDHeaderInputs ==
    [t : DDIDTexts, s : DDIDTexts, p : DDPriorityTexts, o : DDOriginTexts,
     tags : DDTagsTexts]

\* h with the header name set to v unless v is absent
WithHeader(h, name, v) == IF v = Absent THEN h ELSE MapSet(h, name, v)

DDHeaderCarrier(in) ==
    TextMap(WithHeader(WithHeader(WithHeader(WithHeader(WithHeader(EmptyMap,
                DefaultTraceIDHeader, in.t),
                DefaultParentIDHeader, in.s),
                DefaultPriorityHeader, in.p),
                originHeader, in.o),
                traceTagsHeader, in.tags))

InitHeaders ==
    /\ chain = <<"datadog">>
    /\ \E in \in DDHeaderInputs : carrier = DDHeaderCarrier(in)
    /\ onlyExtractFirst \in BOOLEAN
    /\ idx = 1
    /\ ctx = NilCtx
    /\ links = <<>>
    /\ pendingBaggage = EmptyMap
    /\ pc = "loop"
    /\ ret = [ctx |-> NilCtx, err |-> ErrNone]
    /\ calls = <<>>
    /\ orig = NilCtx
    /\ cfgMaxTagsLen = 0
    /\ first = NoCall
    /\ ps = <<>> /\ cfgB3 = FALSE
    /\ procs = <<>>
    /\ sm = NoMutator

NextHeaders ==
    \/ ExtractFirst
    \/ ExtractFinish

SpecHeaders == InitHeaders /\ [][NextHeaders]_vars

----------------------------------------------------------------------------
(* The propagators built from styles that list formats and other names *)

\* unset, "none", names that are no formats, formats in several orders, in
\* upper case, twice, behind a blank, and the names of the B3 formats
ListedStyles ==
    {<<>>,
     <<110, 111, 110, 101>>,   \* "none"
     <<78, 79, 78, 69>>,   \* "NONE"
     <<102, 111, 111>>,   \* "foo"
     <<106, 97, 101, 103, 97, 114, 44, 110, 111, 110, 101, 115, 101, 110, 115, 101>>,   \* "jaegar,nonesense"
     <<100, 97, 116, 97, 100, 111, 103>>,   \* "datadog"
     <<116, 114, 97, 99, 101, 99, 111, 110, 116, 101, 120, 116, 44, 100, 97, 116, 97, 100, 111, 103>>,   \* "tracecontext,datadog"
     <<100, 97, 116, 97, 100, 111, 103, 44, 102, 111, 111, 44, 98, 97, 103, 103, 97, 103, 101>>,   \* "datadog,foo,baggage"
     <<98, 51>>,   \* "b3"
     <<100, 97, 116, 97, 100, 111, 103, 44, 98, 51>>,   \* "datadog,b3"
     <<98, 51, 109, 117, 108, 116, 105, 44, 100, 97, 116, 97, 100, 111, 103>>,   \* "b3multi,datadog"
     <<98, 51, 32, 115, 105, 110, 103, 108, 101, 32, 104, 101, 97, 100, 101, 114, 44, 116, 114, 97, 99, 101, 99, 111, 110, 116, 101, 120, 116>>,   \* "b3 single header,tracecontext"
     <<100, 97, 116, 97, 100, 111, 103, 44, 32, 116, 114, 97, 99, 101, 99, 111, 110, 116, 101, 120, 116>>,   \* "datadog, tracecontext"
     <<68, 97, 116, 97, 100, 111, 103, 44, 84, 82, 65, 67, 69, 67, 79, 78, 84, 69, 88, 84>>,   \* "Datadog,TRACECONTEXT"
     <<100, 97, 116, 97, 100, 111, 103, 44, 100, 97, 116, 97, 100, 111, 103>>,   \* "datadog,datadog"
     <<44>>}   \* ","

InitListed ==
    /\ ps \in ListedStyles
    /\ cfgB3 \in BOOLEAN
    /\ chain = <<>>
    /\ onlyExtractFirst = FALSE
    /\ \/ ctx \in StyleContexts /\ carrier = TextMap(EmptyMap)
       \/ ctx = NilCtx /\ carrier \in StyleCarriers
    /\ idx = 1
    /\ links = <<>>
    /\ pendingBaggage = EmptyMap
    /\ pc = "new"
    /\ ret = [ctx |-> NilCtx, err |-> ErrNone]
    /\ calls = <<>>
    /\ orig = ctx
    /\ cfgMaxTagsLen = 128
    /\ first = NoCall
    /\ procs = <<>>
    /\ sm = NoMutator

NextListed ==
    \/ NewPropagator
    \/ InjectEnter
    \/ InjectStep
    \/ InjectFinish
    \/ ExtractBaggage
    \/ ExtractFirst
    \/ ExtractLater
    \/ ExtractFinish

SpecListed == InitListed /\ [][NextListed]_vars

----------------------------------------------------------------------------
(* Datadog Extract of x-datadog-tags headers around the size limit *)

\* "_dd.p.a=" followed by n - 8 characters 'x': a header of n characters
TagsOfLen(n) == ddTagPrefix \o <<97, 61>> \o Repeat(120, n - 8)

\* headers that do not decode: "hello=world,=", "=x", "a" and "a=1,,b=2"
UndecodableTags ==
    {<<104, 101, 108, 108, 111, 61, 119, 111, 114, 108, 100, 44, 61>>,
     <<61, 120>>,
     <<97>>,
     <<97, 61, 49, 44, 44, 98, 61, 50>>}

\* headers that decode: "_dd.p.dm=-4", and the longest one that is read
DecodableTags == {keyDecisionMaker \o <<61, 45, 52>>, TagsOfLen(propagationExtractMaxSize)}

\* headers over the limit, one that would decode and one that would not
OversizeTags ==
    {TagsOfLen(propagationExtractMaxSize + 1),
     TagsOfLen(propagationExtractMaxSize + 88),
     TagsOfLen(propagationExtractMaxSize) \o <<44, 61>>}

OversizeCarriers ==
    {TextMap(WithHeader(WithHeader(
                MapSet(MapSet(MapSet(EmptyMap, DefaultTraceIDHeader, <<49>>),
                              DefaultParentIDHeader, <<50>>),
                       traceTagsHeader, tags),
                DefaultPriorityHeader, p), originHeader, o)) :
        tags \in UndecodableTags \cup DecodableTags \cup OversizeTags,
        p \in {Absent, <<49>>}, o \in {Absent, <<114, 117, 109>>}}

InitOversize ==
    /\ chain = <<"datadog">>
    /\ carrier \in OversizeCarriers
    /\ onlyExtractFirst \in BOOLEAN
    /\ idx = 1
    /\ ctx = NilCtx
    /\ links = <<>>
    /\ pendingBaggage = EmptyMap
    /\ pc = "loop"
    /\ ret = [ctx |-> NilCtx, err |-> ErrNone]
    /\ calls = <<>>
    /\ orig = NilCtx
    /\ cfgMaxTagsLen = 0
    /\ first = NoCall
    /\ ps = <<>> /\ cfgB3 = FALSE
    /\ procs = <<>>
    /\ sm = NoMutator

NextOversize ==
    \/ ExtractFirst
    \/ ExtractFinish

SpecOversize == InitOversize /\ [][NextOversize]_vars

----------------------------------------------------------------------------
(* One stringMutator used for two strings, rune by rune *)

MaxRun == 3

\* a letter, a comma, a control character and a space
MutatorRunes == {97, 44, 1, 32}

MutatorStrings == UNION {[1..n -> MutatorRunes] : n \in 0..MaxRun}

\* the strings of the second call: empty or one rune
SecondStrings == {<<>>} \cup {<<r>> : r \in MutatorRunes}

\* the function named f applied to the rune r
DisallowedFn(f, r) ==
    CASE f = "key" -> keyDisallowedFn(r)
      [] f = "value" -> valueDisallowedFn(r)
      [] f = "origin" -> originDisallowedFn(r)

\* sm := &stringMutator{} and the calls of Mutate that are to come; fn is ""
\* while no call of Mutate is under way
InitMutator ==
    /\ \E f1, f2 \in {"key", "origin"}, s1 \in MutatorStrings, s2 \in SecondStrings :
          sm = [fn |-> "", s |-> <<>>, rs |-> <<>>, n |-> FALSE, i |-> 1, out |-> <<>>,
                todo |-> <<[fn |-> f1, s |-> s1], [fn |-> f2, s |-> s2]>>]
    /\ chain = <<>>
    /\ onlyExtractFirst = FALSE
    /\ carrier = TextMap(EmptyMap)
    /\ idx = 1
    /\ ctx = NilCtx
    /\ links = <<>>
    /\ pendingBaggage = EmptyMap
    /\ pc = "done"
    /\ ret = [ctx |-> NilCtx, err |-> ErrNone]
    /\ calls = <<>>
    /\ orig = NilCtx
    /\ cfgMaxTagsLen = 0
    /\ first = NoCall
    /\ ps = <<>> /\ cfgB3 = FALSE
    /\ procs = <<>>

\* MutateReset without the reset that ends Mutate
MutateReturns ==
    /\ sm.fn # "" /\ sm.i > Len(sm.s)
    /\ sm' = [sm EXCEPT !.fn = "", !.rs = Append(@, sm.out)]
    /\ UNCHANGED <<ps, cfgB3, procs, first, chain, onlyExtractFirst, carrier, idx, ctx, links,
                   pendingBaggage, pc, ret, calls, orig, cfgMaxTagsLen>>

\* sm.fn = fn, and strings.Map starts on s
MutateEnter ==
    /\ sm.fn = "" /\ Len(sm.rs) < Len(sm.todo)
    /\ Let(sm.todo[Len(sm.rs) + 1], LAMBDA call :
          sm' = [sm EXCEPT !.fn = call.fn, !.s = call.s, !.i = 1, !.out = <<>>])
    /\ UNCHANGED <<ps, cfgB3, procs, first, chain, onlyExtractFirst, carrier, idx, ctx, links,
                   pendingBaggage, pc, ret, calls, orig, cfgMaxTagsLen>>

\* stringMutator.mapping called by strings.Map on the next rune, which is
\* dropped when mapping returns a negative value
smMapping ==
    /\ sm.fn # "" /\ sm.i <= Len(sm.s)
    /\ Let(DisallowedFn(sm.fn, sm.s[sm.i]), LAMBDA r :
          IF r.v < 0
          THEN sm' = [sm EXCEPT !.n = FALSE, !.i = @ + 1]
          ELSE IF r.drop
          THEN IF ~sm.n
               THEN sm' = [sm EXCEPT !.n = TRUE, !.out = Append(@, r.v), !.i = @ + 1]
               ELSE sm' = [sm EXCEPT !.i = @ + 1]
          ELSE sm' = [sm EXCEPT !.n = FALSE, !.out = Append(@, r.v), !.i = @ + 1])
    /\ UNCHANGED <<ps, cfgB3, procs, first, chain, onlyExtractFirst, carrier, idx, ctx, links,
                   pendingBaggage, pc, ret, calls, orig, cfgMaxTagsLen>>

\* strings.Map has returned rs: sm.reset(), return rs
MutateReset ==
    /\ sm.fn # "" /\ sm.i > Len(sm.s)
    /\ sm' = [sm EXCEPT !.fn = "", !.n = FALSE, !.rs = Append(@, sm.out)]
    /\ UNCHANGED <<ps, cfgB3, procs, first, chain, onlyExtractFirst, carrier, idx, ctx, links,
                   pendingBaggage, pc, ret, calls, orig, cfgMaxTagsLen>>

NextMutator ==
    \/ MutateEnter
    \/ smMapping
    \/ MutateReset

SpecMutator == InitMutator /\ [][NextMutator]_vars

----------------------------------------------------------------------------
(* Properties of chainedPropagator.Extract *)

\* what the i-th configured extractor makes of the carrier
ResultAt(i) == ExtractOf(chain[i], carrier)

IsTraceFormat(i) == chain[i] # "baggage"

\* the i-th extractor is the first trace format that yields a valid context
IsWinner(i) ==
    /\ IsTraceFormat(i)
    /\ ResultAt(i).err = ErrNone
    /\ \A j \in 1..(i - 1) : ~IsTraceFormat(j) \/ ResultAt(j).err # ErrNone

\* the first trace format from position i on that yields a valid context, 0
\* when there is none
RECURSIVE FirstValid(_)
FirstValid(i) ==
    IF i > Len(chain) THEN 0
    ELSE IF IsTraceFormat(i) /\ ResultAt(i).err = ErrNone THEN i
    ELSE FirstValid(i + 1)

\* C1: in normal mode the extractors are visited strictly in the configured
\* order, and from the moment a context has won until Extract returns, the
\* context carries the trace id of the first non-baggage extractor that
\* yielded a valid context: no later extractor changes it.
C1_FirstValidWins ==
    ~onlyExtractFirst =>
        /\ calls = SubSeq(chain, 1, Len(calls))
        /\ pc = "loop" => Len(calls) = idx - 1
        /\ (~ctx.nil \/ (pc = "done" /\ ~ret.ctx.nil /\ ~ret.ctx.baggageOnly)) =>
              Let(FirstValid(1), LAMBDA w :
                 /\ w # 0 /\ w <= Len(calls)
                 /\ Let(TraceID(ResultAt(w).ctx), LAMBDA t :
                        /\ ~ctx.nil => TraceID(ctx) = t
                        /\ (pc = "done" /\ ~ret.ctx.nil) => TraceID(ret.ctx) = t))

\* a not_found first, the winner second, a valid context of another trace third
C1_Witness ==
    /\ pc = "done" /\ ~onlyExtractFirst /\ Len(chain) = 3 /\ calls = chain
    /\ IsTraceFormat(1) /\ ResultAt(1).err = ErrSpanContextNotFound
    /\ IsWinner(2)
    /\ IsTraceFormat(3) /\ ResultAt(3).err = ErrNone
    /\ TraceID(ResultAt(3).ctx) # TraceID(ResultAt(2).ctx)
    /\ TraceID(ret.ctx) = TraceID(ResultAt(2).ctx)

\* a later trace-format extractor is about to be consulted after a context won
LaterTurn == pc = "loop" /\ idx <= Len(chain) /\ IsTraceFormat(idx) /\ ~ctx.nil

\* the link the orchestrator is to synthesize for context e of format v
ExpectedLink(e, v, flags) ==
    [TraceID |-> e.traceID.lower,
     SpanID |-> e.spanID,
     TraceIDHigh |-> e.traceID.upper,
     Attributes |-> [reason |-> "terminated_context", context_headers |-> v],
     Flags |-> flags,
     Tracestate |-> IF e.hasTrace THEN MapGet(e.ptags, tracestateHeader) ELSE <<>>]

\* C2: after a context has won, a later extractor that yields a valid context
\* with a different trace id appends exactly one SpanLink carrying that
\* context's lower/upper trace id, span id, tracestate and the two attributes;
\* an extractor whose trace id equals the winner's appends none.
C2_LinkPerDivergentContext ==
    [][LaterTurn =>
          Let(ResultAt(idx).ctx, LAMBDA e :
             IF e.nil \/ TraceID(e) = TraceID(ctx) THEN links' = links
             ELSE \E flags \in {0, 1} :
                     links' = Append(links, ExpectedLink(e, chain[idx], flags)))]_vars

\* the divergent context carries propagated tags and no sampling priority:
\* Extract does not return
C2_Stuck ==
    /\ pc = "panic" /\ idx <= Len(chain) /\ ~ctx.nil
    /\ ~ResultAt(idx).ctx.nil /\ TraceID(ResultAt(idx).ctx) # TraceID(ctx)
    /\ links = <<>>

\* C3: in normal mode, while no context has won, an extractor's not_found is
\* absorbed and the next extractor is consulted; any other error of an
\* extractor ends Extract with that error and no context.
C3_ErrorsBeforeWinner ==
    [][(~onlyExtractFirst /\ pc = "loop" /\ idx <= Len(chain) /\ ctx.nil) =>
          Let(ResultAt(idx), LAMBDA r :
             /\ r.err = ErrSpanContextNotFound =>
                   pc' = "loop" /\ idx' = idx + 1 /\ ctx'.nil
             /\ r.err \notin {ErrNone, ErrSpanContextNotFound} =>
                   pc' = "done" /\ ret' = [ctx |-> NilCtx, err |-> r.err])]_vars

\* C3 (amended): in normal mode, while no context has won, a trace-format
\* extractor's not_found is absorbed and the next extractor is consulted, and
\* any other error of a trace-format extractor ends Extract with that error
\* and no context; an error of the baggage extractor, invalid_carrier
\* included, is dropped and the next extractor is consulted.
C3_ErrorsBeforeWinnerAmended ==
    [][(~onlyExtractFirst /\ pc = "loop" /\ idx <= Len(chain) /\ ctx.nil) =>
          Let(ResultAt(idx), LAMBDA r :
             /\ (IsTraceFormat(idx) /\ r.err = ErrSpanContextNotFound) =>
                   pc' = "loop" /\ idx' = idx + 1 /\ ctx'.nil
             /\ (IsTraceFormat(idx) /\ r.err \notin {ErrNone, ErrSpanContextNotFound}) =>
                   pc' = "done" /\ ret' = [ctx |-> NilCtx, err |-> r.err]
             /\ ~IsTraceFormat(idx) =>
                   pc' = "loop" /\ idx' = idx + 1 /\ ctx'.nil)]_vars

\* a not_found was absorbed and the next trace format's error was returned
C3_Witness ==
    /\ pc = "done" /\ ~onlyExtractFirst /\ Len(calls) = 2
    /\ IsTraceFormat(1) /\ ResultAt(1).err = ErrSpanContextNotFound
    /\ IsTraceFormat(2) /\ ResultAt(2).err = ErrSpanContextCorrupted
    /\ ret = [ctx |-> NilCtx, err |-> ErrSpanContextCorrupted]

\* the baggage extractor failed on a carrier that is no TextMap and the chain
\* went on
C3_BaggageErrorDropped ==
    /\ ~onlyExtractFirst /\ Len(calls) >= 1 /\ ~IsTraceFormat(1)
    /\ ResultAt(1).err = ErrInvalidCarrier
    /\ pc = "done" /\ ret.err = ErrSpanContextNotFound

\* the first trace format of the list, 0 when it holds none
FirstTraceFormat ==
    IF \E i \in 1..Len(chain) : IsTraceFormat(i)
    THEN CHOOSE i \in 1..Len(chain) :
            IsTraceFormat(i) /\ \A j \in 1..(i - 1) : ~IsTraceFormat(j)
    ELSE 0

\* C4: in extract-first mode Extract returns what the first configured
\* extractor produced, context or error, and consults no other extractor.
C4_FirstExtractorOnly ==
    (onlyExtractFirst /\ pc = "done" /\ Len(chain) >= 1) =>
        /\ ret = ResultAt(1)
        /\ calls = <<chain[1]>>

\* C4 (amended): in extract-first mode Extract returns what the first
\* non-baggage extractor produced, exactly as produced, context or error;
\* only the baggage extractors configured before it are consulted besides,
\* and what they extracted is not added; no link is created and no later
\* tracestate is propagated.
C4_FirstTraceFormatOnly ==
    onlyExtractFirst =>
        /\ pc # "panic"
        /\ links = <<>>
        /\ (pc = "done" /\ FirstTraceFormat # 0) =>
              /\ ret = ResultAt(FirstTraceFormat)
              /\ calls = SubSeq(chain, 1, FirstTraceFormat)

\* Datadog first and valid, a W3C traceparent of the same trace with a
\* tracestate in the carrier: the tracestate does not reach the result
C4_Witness ==
    /\ onlyExtractFirst /\ pc = "done" /\ Len(chain) >= 2
    /\ chain[1] = "datadog" /\ chain[2] = "tracecontext"
    /\ ResultAt(1).err = ErrNone /\ ResultAt(2).err = ErrNone
    /\ TraceID(ResultAt(1).ctx) = TraceID(ResultAt(2).ctx)
    /\ MapGet(ResultAt(2).ctx.ptags, tracestateHeader) # <<>>
    /\ ret = ResultAt(1)
    /\ MapGet(ret.ctx.ptags, tracestateHeader) = <<>>
    /\ calls = <<"datadog">>

\* whether the baggage extractor is configured and yields at least one item
BaggageFound ==
    /\ \E i \in 1..Len(chain) : chain[i] = "baggage"
    /\ baggageExtract(carrier).err = ErrNone
    /\ DOMAIN baggageExtract(carrier).ctx.baggage # {}

\* C5: when the loop ends with no winning context, Extract returns a
\* baggage-only context (baggage_only set, empty trace id, zero span id, no
\* error) if the baggage format produced an item, and not_found with a nil
\* context otherwise; it never returns both a context and an error.
C5_NoWinner ==
    pc = "done" =>
        /\ ~(~ret.ctx.nil /\ ret.err # ErrNone)
        /\ (idx > Len(chain) /\ ctx.nil) =>
              IF BaggageFound
              THEN /\ ret.err = ErrNone
                   /\ ~ret.ctx.nil /\ ret.ctx.baggageOnly
                   /\ Empty(ret.ctx.traceID) /\ ret.ctx.spanID = 0
                   /\ ret.ctx.baggage = baggageExtract(carrier).ctx.baggage
              ELSE ret = [ctx |-> NilCtx, err |-> ErrSpanContextNotFound]

\* a trace format found nothing and the baggage header held items
C5_Witness ==
    /\ pc = "done" /\ idx > Len(chain) /\ ctx.nil
    /\ Len(chain) >= 2 /\ \E i \in 1..Len(chain) : IsTraceFormat(i)
    /\ BaggageFound
    /\ ret.ctx.baggageOnly /\ ret.err = ErrNone

\* C6: when a non-W3C format has won and the W3C extractor, consulted later,
\* yields the same trace id with another span id, the context takes the W3C
\* span id, and its reparent id is the p: value of the W3C tracestate when
\* there is one and else the 16 hex digits of the span id that was winning.
C6_W3CParentOverride ==
    [][(LaterTurn /\ chain[idx] = "tracecontext"
            /\ ~ResultAt(idx).ctx.nil
            /\ TraceID(ResultAt(idx).ctx) = TraceID(ctx)
            /\ ResultAt(idx).ctx.spanID # ctx.spanID) =>
          Let(ResultAt(idx).ctx, LAMBDA e :
             /\ ctx'.spanID = e.spanID
             /\ ctx'.reparentID = IF e.reparentID # <<>> THEN e.reparentID
                                  ELSE PadHex(ctx.spanID, 16))]_vars

\* B3 has won, no Datadog propagator is configured: the W3C span id is not
\* taken
C6_NotOverridden ==
    /\ pc = "done" /\ ~onlyExtractFirst
    /\ chain = <<"b3multi", "tracecontext">>
    /\ ResultAt(1).err = ErrNone /\ ResultAt(2).err = ErrNone
    /\ TraceID(ResultAt(1).ctx) = TraceID(ResultAt(2).ctx)
    /\ ResultAt(2).ctx.spanID # ResultAt(1).ctx.spanID
    /\ ret.ctx.spanID = ResultAt(1).ctx.spanID
    /\ ret.ctx.reparentID = <<>>

----------------------------------------------------------------------------
(* Properties of chainedPropagator.Inject *)

\* the span context handed to Inject is nil or lacks a trace id or a span id
InvalidSpanContext(c) == c.nil \/ Empty(c.traceID) \/ c.spanID = 0

\* C7: for every injector list, Inject of a nil context, of a context with an
\* empty trace id or of one with a zero span id into a valid writer returns
\* invalid_span_context.
C7_InvalidContextRejected ==
    (pc = "done" /\ carrier.valid /\ InvalidSpanContext(orig)) =>
        ret.err = ErrInvalidSpanContext

\* C7 (amended): a nil context is rejected with invalid_span_context by every
\* list; a context with an empty trace id or a zero span id is rejected with
\* invalid_span_context exactly by the lists that hold a trace format, and a
\* list of none or of baggage alone returns nil for it.
C7_InvalidContextRejectedByTraceFormats ==
    (pc = "done" /\ carrier.valid /\ InvalidSpanContext(orig)) =>
        IF orig.nil \/ \E i \in 1..Len(chain) : IsTraceFormat(i)
        THEN ret.err = ErrInvalidSpanContext
        ELSE ret.err = ErrNone

\* a context with a trace id and no span id met baggage, then a trace format
C7_Witness ==
    /\ pc = "done" /\ carrier.valid
    /\ ~orig.nil /\ ~Empty(orig.traceID) /\ orig.spanID = 0
    /\ Len(chain) >= 2 /\ chain[1] = "baggage"
    /\ ret.err = ErrInvalidSpanContext

\* whether injector v fails on what Inject was handed, and with which error
InjectorError(v) ==
    IF ~carrier.valid THEN ErrInvalidCarrier
    ELSE IF v # "baggage" /\ InvalidSpanContext(orig) THEN ErrInvalidSpanContext
    ELSE ErrNone

\* the header by which an injector's run shows in the carrier
MarkOf(v) ==
    CASE v = "datadog" -> DefaultTraceIDHeader
      [] v = "tracecontext" -> traceparentHeader
      [] v = "b3multi" -> b3TraceIDHeader
      [] v = "b3" -> b3SingleHeader
      [] v = "baggage" -> DefaultBaggageHeader

Ran(v) == v = "baggage" \/ MarkOf(v) \in DOMAIN carrier.h

\* C8: the injectors are invoked strictly in the configured order on the one
\* carrier; the first failure is returned and no later injector is invoked;
\* when none fails, each has run exactly once and nil is returned.
C8_InjectorsInOrder ==
    /\ calls = SubSeq(chain, 1, Len(calls))
    /\ \A i \in 1..Len(chain) :
          (IsTraceFormat(i) /\ MarkOf(chain[i]) \in DOMAIN carrier.h) =>
              (i <= Len(calls) /\ InjectorError(chain[i]) = ErrNone)
    /\ (pc = "done" /\ ~orig.nil) =>
          IF \E i \in 1..Len(chain) : InjectorError(chain[i]) # ErrNone
          THEN \E i \in 1..Len(chain) :
                  /\ InjectorError(chain[i]) # ErrNone
                  /\ \A j \in 1..(i - 1) : InjectorError(chain[j]) = ErrNone /\ Ran(chain[j])
                  /\ calls = SubSeq(chain, 1, i)
                  /\ ret.err = InjectorError(chain[i])
          ELSE /\ calls = chain
               /\ \A i \in 1..Len(chain) : Ran(chain[i])
               /\ ret.err = ErrNone

\* baggage ran and wrote its header, the trace format after it failed, the
\* third injector was not invoked
C8_Witness ==
    /\ pc = "done" /\ Len(chain) = 3 /\ Len(calls) = 2
    /\ chain[1] = "baggage" /\ DefaultBaggageHeader \in DOMAIN carrier.h
    /\ ret.err = ErrInvalidSpanContext
    /\ MarkOf(chain[3]) \notin DOMAIN carrier.h

----------------------------------------------------------------------------
(* Properties of Inject followed by Extract *)

\* Extract has returned from the carrier Inject wrote
RoundTripDone == pc = "done" /\ first # NoCall

CarriedTraceID ==
    IF chain[1] = "datadog" /\ traceTagsHeader \notin DOMAIN first.carrier.h
    THEN [orig.traceID EXCEPT !.upper = 0]
    ELSE orig.traceID

\* the baggage a format carries: Datadog alone, the keys in lower case
CarriedBaggage ==
    IF chain[1] = "datadog"
    THEN [k \in {ToLower(x) : x \in DOMAIN orig.baggage} |->
             orig.baggage[CHOOSE x \in DOMAIN orig.baggage : ToLower(x) = k]]
    ELSE EmptyMap

\* the sampling priority a format carries
CarriedPriority ==
    LET sp == SamplingPriority(orig)
    IN CASE chain[1] = "datadog" -> sp
         [] chain[1] = "tracecontext" -> [ok |-> TRUE, p |-> IF sp.ok THEN sp.p ELSE 0]
         [] OTHER -> IF sp.ok
                     THEN [ok |-> TRUE, p |-> IF sp.p >= 1 THEN 1 ELSE 0]
                     ELSE NoPriority

----------------------------------------------------------------------------
(* Properties of the W3C tracestate *)

\* Inject has returned nil for the context orig
W3CInjected == pc = "done" /\ ~orig.nil /\ ret.err = ErrNone

\* remote, not updated, no local root span, a propagating tag, and a stored
\* tracestate that starts with dd=
StoredTracestateKept(c) ==
    /\ c.isRemote /\ ~c.updated /\ ~(c.hasTrace /\ c.root)
    /\ propagatingTagsLen(c) >= 1
    /\ HasPrefix(propagatingTag(c, tracestateHeader), ddMemberPrefix)

\* the tracestate written is the stored one exactly under StoredTracestateKept,
\* and a composed one otherwise
TracestateWritten ==
    W3CInjected =>
        /\ tracestateHeader \in DOMAIN carrier.h
        /\ IF StoredTracestateKept(orig)
           THEN carrier.h[tracestateHeader] = propagatingTag(orig, tracestateHeader)
           ELSE \E keys \in KeyOrders(DOMAIN ctx.ptags) :
                   carrier.h[tracestateHeader] =
                      composeTracestate(ctx, SamplingPriority(orig).p,
                                        propagatingTag(orig, tracestateHeader), keys)

\* Inject has returned for the context extracted from a carrier whose
\* tracestate starts with dd=
ReinjectedDD ==
    /\ W3CInjected /\ first # NoCall
    /\ tracestateHeader \in DOMAIN first.carrier.h
    /\ HasPrefix(first.carrier.h[tracestateHeader], ddMemberPrefix)

\* C10: W3C inject writes the stored tracestate byte for byte exactly when the
\* context is remote, was not updated after extraction, its trace has no local
\* root span, it has at least one propagating tag and the stored tracestate
\* starts with dd=, and a freshly composed tracestate in every other case;
\* extracting W3C headers whose tracestate starts with dd= and injecting the
\* unmodified context re-emits the incoming traceparent and tracestate
\* unchanged.
C10_TracestateCache ==
    /\ TracestateWritten
    /\ ReinjectedDD =>
          /\ carrier.h[tracestateHeader] = first.carrier.h[tracestateHeader]
          /\ carrier.h[traceparentHeader] = first.carrier.h[traceparentHeader]

\* the traceparent Inject writes for an incoming one: version 00, the ids in
\* lower case, flags 01 when the sampled bit is set and 00 otherwise
Canonical(traceparent) ==
    LET parts == SplitN(ToLower(Trim(traceparent, {9, 32, 45})), 45, 5)
    IN <<48, 48, 45>> \o parts[2] \o <<45>> \o parts[3] \o <<45>>
          \o (IF ParseInt8Hex(parts[4]).v % 2 = 1 THEN <<48, 49>> ELSE <<48, 48>>)

\* C10 (amended): W3C inject writes the stored tracestate byte for byte exactly
\* when the context is remote, was not updated after extraction, its trace has
\* no local root span, it has at least one propagating tag and the stored
\* tracestate starts with dd=, and a freshly composed tracestate in every other
\* case; extracting W3C headers whose tracestate starts with dd= and injecting
\* the unmodified context re-emits the incoming tracestate unchanged, and the
\* incoming traceparent in the form version 00, lower-case ids, flags 00 or 01
\* by the sampled bit, which is the incoming value only when that was already
\* in this form.
C10_TracestateCacheCanonicalParent ==
    /\ TracestateWritten
    /\ ReinjectedDD =>
          /\ carrier.h[tracestateHeader] = first.carrier.h[tracestateHeader]
          /\ carrier.h[traceparentHeader] = Canonical(first.carrier.h[traceparentHeader])

\* a traceparent with flags 03 and a tracestate that starts with dd= were
\* extracted and injected again: the tracestate is the incoming one, the
\* traceparent is not
C10_Witness ==
    /\ ReinjectedDD
    /\ StoredTracestateKept(orig)
    /\ SubSeq(first.carrier.h[traceparentHeader], 54, 55) = <<48, 51>>
    /\ carrier.h[tracestateHeader] = first.carrier.h[tracestateHeader]
    /\ carrier.h[traceparentHeader] # first.carrier.h[traceparentHeader]

----------------------------------------------------------------------------
(* Properties of the tracestate written by propagatorW3c.injectTextMap *)

\* the tracestate header W3C inject has written, and its list-members
TracestateInjected == pc \in {"inject", "done"} /\ calls = <<"tracecontext">>
WrittenTracestate == MapGet(carrier.h, tracestateHeader)
WrittenMembers == Split(WrittenTracestate, 44)

\* C11: in every tracestate written by W3C inject, whatever the origin, the
\* reparent id, the sampling priority and the propagating tags of the context,
\* the dd= list-member is at most 256 characters long, and Inject returns no
\* error for the tags it leaves out
C11_DDMemberBounded ==
    /\ TracestateInjected =>
          \A i \in 1..Len(WrittenMembers) :
             HasPrefix(WrittenMembers[i], ddMemberPrefix) => Len(WrittenMembers[i]) <= 256
    /\ (pc = "done" /\ calls = <<"tracecontext">>) => ret.err = ErrNone

\* C11: a composed tracestate whose dd= member is longer than 256 characters:
\* the origin of the context alone takes it beyond the limit
C11_OverBudget ==
    /\ pc = "done" /\ ret.err = ErrNone
    /\ w3cRecompose(ctx)
    /\ Len(ctx.origin) > 240
    /\ HasPrefix(WrittenMembers[1], ddMemberPrefix)
    /\ Len(WrittenMembers[1]) > 256

\* the tags budget of composeTracestate is kept: when the dd= member is
\* composed and the origin is short, the member stays within 256 characters,
\* the tags from the first one that does not fit being left out
DDTagsWithinBudget ==
    (TracestateInjected /\ w3cRecompose(ctx) /\ Len(ctx.origin) <= 3) =>
        Len(WrittenMembers[1]) <= 256

\* C12: every tracestate written by W3C inject holds at most 32 list-members,
\* whatever tracestate is stored on the context
C12_AtMost32Members ==
    TracestateInjected => Len(WrittenMembers) <= 32

\* C12: the stored tracestate of 33 list-members written as it is, without
\* being composed again
C12_StoredWrittenWhole ==
    /\ pc = "done" /\ ret.err = ErrNone
    /\ ~w3cRecompose(ctx)
    /\ WrittenTracestate = propagatingTag(ctx, tracestateHeader)
    /\ Len(WrittenMembers) = 33

\* a composed tracestate never holds more than 32 list-members: the rightmost
\* vendors of the stored tracestate are left out
ComposedAtMost32Members ==
    (TracestateInjected /\ w3cRecompose(ctx)) =>
        /\ Len(WrittenMembers) <= 32
        /\ propagatingTag(ctx, tracestateHeader) = Vendors(33) =>
              WrittenMembers = <<WrittenMembers[1]>> \o Take(Split(Vendors(33), 44), 31)

----------------------------------------------------------------------------
(* Properties of the baggage header *)

\* baggage inject has run on the span's baggage; what it wrote
BaggageInjected == first = NoCall /\ calls = <<"baggage">> /\ pc \in {"inject", "done"}
WrittenItems(car) ==
    IF HasHeader(car.h, DefaultBaggageHeader)
    THEN Split(Header(car.h, DefaultBaggageHeader), 44) ELSE <<>>
EncodedItem(bag, k) == encodeKey(k) \o <<61>> \o encodeValue(bag[k])

\* Extract has returned from the carrier Inject filled, and Inject had
\* written every item of the span's baggage
BaggageRoundTripDone ==
    /\ pc = "done" /\ first # NoCall
    /\ Cardinality(DOMAIN orig.baggage) <= baggageMaxItems
    /\ Len(WrittenItems(first.carrier)) = Cardinality(DOMAIN orig.baggage)

\* C13: for every baggage map of at most 64 items whose encoded form is at
\* most 8192 bytes, extracting the header baggage inject wrote yields the same
\* keys with the same values
C13_BaggageRoundTrip ==
    BaggageRoundTripDone => ret.ctx.baggage = orig.baggage

\* C13: the value "a+b" written as it is and read back as "a b"
C13_PlusReadAsSpace ==
    /\ BaggageRoundTripDone
    /\ orig.baggage = MapSet(EmptyMap, <<107>>, <<97, 43, 98>>)
    /\ Header(first.carrier.h, DefaultBaggageHeader) = <<107, 61, 97, 43, 98>>
    /\ ret.err = ErrNone
    /\ ret.ctx.baggage = MapSet(EmptyMap, <<107>>, <<97, 32, 98>>)

\* keys and values that are not empty, neither start nor end with white space
\* and hold neither + nor %
PlainBaggage(bag) ==
    \A k \in DOMAIN bag :
       \A s \in {k, bag[k]} :
          /\ s # <<>> /\ TrimSpace(s) = s
          /\ \A i \in 1..Len(s) : s[i] \notin {37, 43}

\* the round trip of plain baggage gives the baggage back
PlainBaggageRoundTrip ==
    (BaggageRoundTripDone /\ PlainBaggage(orig.baggage)) =>
        /\ orig.baggage # EmptyMap => ret.err = ErrNone
        /\ ret.ctx.baggage = orig.baggage

\* C14: the header written by baggage inject holds at most 64 items and at
\* most 8192 bytes; every item in it is an item of the span's baggage; when
\* items are missing, the header is full or an item that is not in it does not
\* fit behind it; Inject returns no error
C14_BaggageHeaderBounded ==
    BaggageInjected =>
        Let(WrittenItems(carrier), LAMBDA items :
        Let(IF items = <<>> THEN 0 ELSE Len(Header(carrier.h, DefaultBaggageHeader)),
            LAMBDA size :
            /\ Len(items) <= baggageMaxItems
            /\ size <= baggageMaxBytes
            /\ Len(items) <= Cardinality(DOMAIN orig.baggage)
            /\ \A i \in 1..Len(items) :
                  \E k \in DOMAIN orig.baggage : items[i] = EncodedItem(orig.baggage, k)
            /\ Len(items) < Cardinality(DOMAIN orig.baggage) =>
                  \/ Len(items) = baggageMaxItems
                  \/ \E k \in DOMAIN orig.baggage :
                        /\ \A i \in 1..Len(items) : items[i] # EncodedItem(orig.baggage, k)
                        /\ size + (IF items = <<>> THEN 0 ELSE 1)
                              + Len(EncodedItem(orig.baggage, k)) > baggageMaxBytes
            /\ pc = "done" => ret.err = ErrNone))

\* C14: two of the three long values are written, the third does not fit, and
\* the short item behind it is not written although it would fit
C14_Witness ==
    /\ BaggageInjected /\ pc = "done" /\ ret.err = ErrNone
    /\ orig.baggage = BagOverMaxBytes
    /\ Len(WrittenItems(carrier)) = 2
    /\ \A i \in 1..2 : WrittenItems(carrier)[i] # EncodedItem(BagOverMaxBytes, BaggageKey(0))

\* the header of 64 items written for a baggage of 66
MaxItemsWritten ==
    /\ BaggageInjected /\ pc = "done" /\ ret.err = ErrNone
    /\ orig.baggage = BagOverMaxItems
    /\ Len(WrittenItems(carrier)) = baggageMaxItems

\* the pieces of the carrier's baggage header; a piece is malformed when it
\* has no '=', or nothing but white space before or after its first '='
BaggagePieces ==
    IF HasHeader(carrier.h, DefaultBaggageHeader)
    THEN Split(Header(carrier.h, DefaultBaggageHeader), 44) ELSE <<>>
PieceKey(p) == TrimSpace(Take(p, IndexRune(p, 61) - 1))
PieceValue(p) == TrimSpace(Drop(p, IndexRune(p, 61)))
Malformed(p) == IndexRune(p, 61) = 0 \/ PieceKey(p) = <<>> \/ PieceValue(p) = <<>>
MalformedHeader == \E i \in 1..Len(BaggagePieces) : Malformed(BaggagePieces[i])

\* the items of a header: none when a piece is malformed or the header is
\* empty; otherwise the decoded pieces inserted in order
HeaderItems ==
    IF MalformedHeader \/ BaggagePieces = <<>>
          \/ Header(carrier.h, DefaultBaggageHeader) = <<>>
    THEN EmptyMap
    ELSE [k \in {QueryUnescape(PieceKey(BaggagePieces[i])) : i \in 1..Len(BaggagePieces)} |->
             QueryUnescape(PieceValue(BaggagePieces[
                 CHOOSE i \in 1..Len(BaggagePieces) :
                    /\ QueryUnescape(PieceKey(BaggagePieces[i])) = k
                    /\ \A j \in (i + 1)..Len(BaggagePieces) :
                          QueryUnescape(PieceKey(BaggagePieces[j])) # k]))]

BaggageConsulted == \E i \in 1..Len(calls) : calls[i] = "baggage"

\* C15: baggage extraction is all or nothing: when a piece of the baggage
\* header lacks '=' or has an empty key or value after trimming, no item is
\* taken from the header, and otherwise every piece is inserted as an item;
\* the trace context of the carrier is extracted in both cases
C15_BaggageAllOrNothing ==
    /\ BaggageConsulted => pendingBaggage = HeaderItems
    /\ (pc = "done" /\ ~onlyExtractFirst /\ Len(chain) = 2
           /\ HasHeader(carrier.h, DefaultTraceIDHeader)) =>
          /\ ret.err = ErrNone
          /\ ~ret.ctx.nil /\ ~ret.ctx.baggageOnly
          /\ ret.ctx.traceID = [upper |-> 0, lower |-> 1]
          /\ ret.ctx.spanID = 1
          /\ ret.ctx.baggage = HeaderItems

\* C15: the header "a=b,c=" with the Datadog headers of trace 1: the trace
\* context is returned without a baggage item
C15_Witness ==
    /\ pc = "done" /\ ~onlyExtractFirst
    /\ chain = <<"datadog", "baggage">>
    /\ HasHeader(carrier.h, DefaultTraceIDHeader)
    /\ HasHeader(carrier.h, DefaultBaggageHeader)
    /\ Header(carrier.h, DefaultBaggageHeader) = <<97, 61, 98, 44, 99, 61>>
    /\ ret.err = ErrNone
    /\ ret.ctx.traceID.lower = 1
    /\ ret.ctx.baggage = EmptyMap

\* a well-formed header of two pieces gives two items, with its blanks trimmed
WellFormedHeaderExtracted ==
    /\ pc = "done" /\ ~onlyExtractFirst
    /\ chain = <<"baggage", "datadog">>
    /\ HasHeader(carrier.h, DefaultBaggageHeader)
    /\ Header(carrier.h, DefaultBaggageHeader)
          = <<32, 97, 32, 61, 32, 98, 32, 44, 32, 99, 32, 61, 32, 100, 32>>
    /\ ret.ctx.traceID.lower = 1
    /\ ret.ctx.baggage = MapSet(MapSet(EmptyMap, <<97>>, <<98>>), <<99>>, <<100>>)

\* C16: in normal mode, when the carrier holds a valid trace context and a
\* valid baggage header, Extract returns the identity of the first valid trace
\* format together with all the items of the baggage header, never a
\* baggage-only context, and a propagator with the baggage format at another
\* place of its list returns the same for the same carrier
C16_BaggagePositionIrrelevant ==
    (pc = "done" /\ ~onlyExtractFirst /\ FirstValid(1) # 0) =>
        /\ ret.err = ErrNone
        /\ ~ret.ctx.nil /\ ~ret.ctx.baggageOnly
        /\ TraceID(ret.ctx) = TraceID(ResultAt(FirstValid(1)).ctx)
        /\ ret.ctx.baggage = HeaderItems
        /\ first # NoCall => ret = first.ret

\* C16: the baggage format first in one list and last in the other, around two
\* trace formats, with the same context and the two items returned by both
C16_Witness ==
    /\ pc = "done" /\ first # NoCall
    /\ Len(chain) = 3
    /\ first.chain[1] = "baggage" /\ chain[3] = "baggage"
    /\ FirstValid(1) # 0
    /\ ret.err = ErrNone
    /\ Cardinality(DOMAIN ret.ctx.baggage) = 2
    /\ ret = first.ret

\* the traceparent value of the carrier
TraceparentValue == MapGet(carrier.h, traceparentHeader)

IsHexDigit(r) == r \in (48..57) \cup (97..102) \cup (65..70)

\* h starts with a two-digit version and a dash
Versioned(h) == Len(h) >= 3 /\ IsHexDigit(h[1]) /\ IsHexDigit(h[2]) /\ h[3] = 45

VersionOf(h) == DigitVal(LowerRune(h[1]), 16) * 16 + DigitVal(LowerRune(h[2]), 16)

\* the grammar of the W3C header: version, 32 digits of a trace id that is not
\* zero, 16 digits of a span id that is not zero, two digits of flags, and
\* after them nothing or a dash and whatever follows
WellFormedTraceparent(h) ==
    /\ Len(h) >= 55
    /\ Versioned(h)
    /\ \A i \in 4..35 : IsHexDigit(h[i])
    /\ \E i \in 4..35 : h[i] # 48
    /\ h[36] = 45
    /\ \A i \in 37..52 : IsHexDigit(h[i])
    /\ \E i \in 37..52 : h[i] # 48
    /\ h[53] = 45
    /\ IsHexDigit(h[54]) /\ IsHexDigit(h[55])
    /\ Len(h) > 55 => h[56] = 45

FlagsOf(h) == DigitVal(LowerRune(h[54]), 16) * 16 + DigitVal(LowerRune(h[55]), 16)

\* Extract returned the context that h describes
TraceparentParsed(h) ==
    /\ ret.err = ErrNone
    /\ TraceID(ret.ctx) = ToLower(SubSeq(h, 4, 35))
    /\ PadHex(SpanID(ret.ctx), 16) = ToLower(SubSeq(h, 37, 52))
    /\ SamplingPriority(ret.ctx) = [ok |-> TRUE, p |-> FlagsOf(h) % 2]

TraceparentCorrupted == ret.err = ErrSpanContextCorrupted /\ ret.ctx.nil

\* C17: a traceparent of 54 characters is corrupted; a well-formed one of
\* version 00 and 55 characters is parsed; one of version 00 and more than 55
\* characters is corrupted; a well-formed one of a version from 01 to fe and
\* more than 55 characters is parsed
C17_TraceparentLengths ==
    pc = "done" =>
        Let(TraceparentValue, LAMBDA h :
            /\ (Versioned(h) /\ Len(h) = 54) => TraceparentCorrupted
            /\ (WellFormedTraceparent(h) /\ VersionOf(h) = 0 /\ Len(h) = 55)
                  => TraceparentParsed(h)
            /\ (Versioned(h) /\ VersionOf(h) = 0 /\ Len(h) > 55) => TraceparentCorrupted
            /\ (WellFormedTraceparent(h) /\ VersionOf(h) \in 1..254 /\ Len(h) > 55)
                  => TraceparentParsed(h))

\* C17: the well-formed value 00-..-80 of 55 characters returned as corrupted
C17_HighFlagsRejected ==
    /\ pc = "done"
    /\ WellFormedTraceparent(TraceparentValue)
    /\ VersionOf(TraceparentValue) = 0 /\ Len(TraceparentValue) = 55
    /\ FlagsOf(TraceparentValue) = 128
    /\ TraceparentCorrupted

\* what the code does: the length is that of the value without the tabs,
\* spaces and dashes around it, and flags above 7f do not fit the signed byte
\* they are parsed into
TraceparentLengthRule ==
    pc = "done" =>
        Let(TraceparentValue, LAMBDA h :
        Let(Len(Trim(h, {9, 32, 45})), LAMBDA n :
            /\ (Versioned(h) /\ n < 55) => TraceparentCorrupted
            /\ (WellFormedTraceparent(h) /\ VersionOf(h) = 0 /\ n = 55 /\ FlagsOf(h) < 128)
                  => TraceparentParsed(h)
            /\ (WellFormedTraceparent(h) /\ FlagsOf(h) >= 128) => TraceparentCorrupted
            /\ (Versioned(h) /\ VersionOf(h) = 0 /\ n > 55) => TraceparentCorrupted
            /\ (WellFormedTraceparent(h) /\ VersionOf(h) \in 1..254 /\ FlagsOf(h) < 128)
                  => TraceparentParsed(h)
            /\ (Versioned(h) /\ VersionOf(h) = 255) => TraceparentCorrupted))

\* the future-version value of the tests, cc-..-01-what, returned as parsed
HigherVersionParsed ==
    /\ pc = "done"
    /\ VersionOf(TraceparentValue) = 204 /\ Len(TraceparentValue) = 60
    /\ TraceparentParsed(TraceparentValue)
    /\ SamplingPriority(ret.ctx).p = 1

StyleNone == <<110, 111, 110, 101>>                                  \* "none"

\* the names listed in the style, in lower case
StyleNames == Split(ToLower(ps), 44)

\* the style is "none" in some letter case
NoneAlone == ToLower(ps) = StyleNone

\* the style lists "none" and at least one other name
NoneAmongOthers ==
    /\ \E i \in 1..Len(StyleNames) : StyleNames[i] = StyleNone
    /\ \E i \in 1..Len(StyleNames) : StyleNames[i] # StyleNone

\* the format that a name of the configuration stands for, "" when it is not
\* the name of a format
FormatNamed(v) ==
    CASE v = <<100, 97, 116, 97, 100, 111, 103>> -> "datadog"
      [] v = <<116, 114, 97, 99, 101, 99, 111, 110, 116, 101, 120, 116>> -> "tracecontext"
      [] v = <<98, 97, 103, 103, 97, 103, 101>> -> "baggage"
      [] v = <<98, 51>> -> "b3multi"
      [] v = <<98, 51, 109, 117, 108, 116, 105>> -> "b3multi"
      [] v = <<98, 51, 32, 115, 105, 110, 103, 108, 101, 32, 104, 101, 97, 100, 101, 114>> -> "b3"
      [] OTHER -> ""

\* the formats of the listed names other than "none", in the listed order
OtherListedFormats ==
    SelectSeq([i \in 1..Len(StyleNames) |-> FormatNamed(StyleNames[i])], LAMBDA f : f # "")

\* with the style "none", the chain is empty, a returned Inject has written no
\* header and reports no error, and a returned Extract reports not_found
NoneDisables ==
    NoneAlone =>
        /\ chain = <<>>
        /\ pc = "done" =>
              IF orig.nil THEN ret.err = ErrSpanContextNotFound /\ ret.ctx.nil
              ELSE ret.err = ErrNone /\ carrier.h = EmptyMap

NoneInjectsNothing ==
    /\ pc = "done"
    /\ ps = <<78, 111, 78, 101>>
    /\ ~orig.nil /\ ~Empty(orig.traceID)
    /\ chain = <<>>
    /\ ret.err = ErrNone
    /\ carrier.h = EmptyMap

\* Extract returned not_found under the style "none" from a carrier that holds
\* Datadog headers
NoneExtractsNothing ==
    /\ pc = "done"
    /\ ps = StyleNone
    /\ orig.nil /\ DefaultTraceIDHeader \in DOMAIN carrier.h
    /\ ret.err = ErrSpanContextNotFound

\* Inject under "none,b3" has written the B3 headers, as TestNonePropagator
\* expects
NoneWithB3Injects ==
    /\ pc = "done"
    /\ ps = <<110, 111, 110, 101, 44, 98, 51>>
    /\ ~cfgB3
    /\ chain = <<"b3multi">>
    /\ ~orig.nil /\ ret.err = ErrNone
    /\ b3TraceIDHeader \in DOMAIN carrier.h

\* the registers of every goroutine
AllGoroutines == {Registers} \cup {procs[i] : i \in 1..Len(procs)}

\* the carrier maps that one Inject of the context c, alone, may leave, from
\* the injector i on with the carrier map h
RECURSIVE InjectedAlone(_, _, _)
InjectedAlone(c, h, i) ==
    IF i > Len(chain) THEN {h}
    ELSE UNION {Let(InjectOf(chain[i], c, TextMap(h), tagKeys, bagKeys, cfgMaxTagsLen),
                    LAMBDA r : IF r.err # ErrNone THEN {} ELSE InjectedAlone(r.ctx, r.h, i + 1)) :
                tagKeys \in KeyOrders(TagKeys(c)), bagKeys \in KeyOrders(DOMAIN c.baggage)}

ConcurrentSameAsAlone ==
    (\A g \in AllGoroutines : g.pc = "done") =>
        \A g \in AllGoroutines :
            /\ g.ret.err = ErrNone
            /\ g.carrier.h \in InjectedAlone(orig, EmptyMap, 1)

\* C19: Inject never modifies the chain, and when every goroutine that
\* injects the same span context into a carrier of its own has returned, none
\* reports an error and every carrier holds headers that one Inject of that
\* context alone produces
C19_ConcurrentInject == []ConcurrentSameAsAlone /\ [][chain' = chain]_vars

\* C19: all goroutines have returned from Inject of a context with a 128-bit
\* trace id and no trace, and the carrier of one of them holds headers that no
\* Inject alone produces
C19_TagLostInRace ==
    /\ \A g \in AllGoroutines : g.pc = "done" /\ g.ret.err = ErrNone
    /\ HasUpper(orig.traceID) /\ ~orig.hasTrace
    /\ \E g \in AllGoroutines : g.carrier.h \notin InjectedAlone(orig, EmptyMap, 1)

\* when the context has a trace, or its trace id has no upper half, the
\* goroutines go through the locked methods of the trace only and every
\* carrier holds what one Inject alone produces
ConcurrentInjectWithTrace ==
    (orig.hasTrace \/ ~HasUpper(orig.traceID)) => ConcurrentSameAsAlone

\* no action of Inject and Extract changes the chain
ChainNeverModified == [][chain' = chain]_vars

\* every rune of s is printable ASCII other than ',' and '='
PlainTagText(s) == \A i \in 1..Len(s) : s[i] >= 32 /\ s[i] <= 126 /\ s[i] # 44 /\ s[i] # 61

PlainTags(m) ==
    \A k \in DOMAIN m : k # <<>> /\ m[k] # <<>> /\ PlainTagText(k) /\ PlainTagText(m[k])

\* the length of k1=v1,k2=v2,... for the entries of m whose keys are keys[i..]
RECURSIVE EncodedLen(_, _, _)
EncodedLen(m, keys, i) ==
    IF i > Len(keys) THEN 0
    ELSE Len(keys[i]) + 1 + Len(m[keys[i]]) + (IF i < Len(keys) THEN 1 ELSE 0)
            + EncodedLen(m, keys, i + 1)

\* the encoding of m is within the limit of the sender and that of the receiver
TagsFit(m) ==
    Let(EncodedLen(m, SortedKeys(DOMAIN m), 1), LAMBDA n :
        n <= cfgMaxTagsLen /\ n <= propagationExtractMaxSize)

IsW3CHeaderName(k) == k = tracestateHeader \/ k = traceparentHeader

ThreeTagsRoundTrip ==
    /\ pc = "done"
    /\ Cardinality(DOMAIN orig.ptags) = 3
    /\ ret.ctx.ptags = orig.ptags

\* C21 as stated: each of the three sanitizers returns, for the string it has
\* returned, that string again
C21_Idempotent == Len(sm.rs) = 2 => sm.rs[2] = sm.rs[1]

\* C21: the sanitizer of tracestate keys returns, for the string it has
\* returned, that string again; so do the sanitizers of values and of the
\* origin when the first string holds no '=', and otherwise they return it
\* with every '~', which the first pass wrote for an '=', turned into '_'
C21_IdempotentButEquals ==
    Len(sm.rs) = 2 =>
        /\ (sm.fn = "key" \/ \A i \in 1..Len(sm.s) : sm.s[i] # 61) => sm.rs[2] = sm.rs[1]
        /\ sm.fn # "key" =>
              sm.rs[2] = [i \in 1..Len(sm.rs[1]) |->
                             IF sm.rs[1][i] = 126 THEN 95 ELSE sm.rs[1][i]]

\* C21: the value "a=;" sanitized to "a~_" and then to "a__"
C21_Witness ==
    /\ sm.fn = "value"
    /\ sm.s = <<97, 61, 59>>
    /\ sm.rs = <<(<<97, 126, 95>>), (<<97, 95, 95>>)>>

\* a run of runes outside the printable range collapsed to one '_' by a first
\* pass that the second pass returns as it is
CollapsedRunStable ==
    /\ sm.fn = "origin"
    /\ sm.s = <<1, 32, 233>>
    /\ sm.rs = <<(<<95>>), (<<95>>)>>

\* the flags that the claim gives the link of the context e
FlagsOfPriority(e) ==
    IF SamplingPriority(e).ok /\ SamplingPriority(e).p > 0 THEN 1 ELSE 0

\* C22: the link appended for a later context of another trace id has the
\* flags 1 when the sampling priority of that context is greater than 0, and 0
\* when it is 0, negative or absent
C22_LinkFlagsFromPriority ==
    [][LaterTurn =>
          Let(ResultAt(idx).ctx, LAMBDA e :
             (~e.nil /\ TraceID(e) # TraceID(ctx)) =>
                 /\ Len(links') = Len(links) + 1
                 /\ links'[Len(links')].Flags = FlagsOfPriority(e))]_vars

\* C22: Extract has returned a link of flags 1 for the Datadog context of
\* sampling priority -1
C22_RejectedLinkedAsSampled ==
    /\ pc = "done" /\ ret.err = ErrNone
    /\ \E j \in 1..Len(chain) :
          /\ chain[j] = "datadog"
          /\ SamplingPriority(ResultAt(j).ctx) = [ok |-> TRUE, p |-> -1]
          /\ \E i \in 1..Len(ret.ctx.spanLinks) :
                /\ ret.ctx.spanLinks[i].Attributes.context_headers = "datadog"
                /\ ret.ctx.spanLinks[i].TraceID = TraceIDLower(ResultAt(j).ctx)
                /\ ret.ctx.spanLinks[i].Flags = 1

\* for a context of a sampling priority that is not negative, and for a context
\* without a trace, the appended link has the flags of the claim
LinkFlagsWhenNotNegative ==
    [][LaterTurn =>
          Let(ResultAt(idx).ctx, LAMBDA e :
             (/\ ~e.nil /\ TraceID(e) # TraceID(ctx)
              /\ ~e.hasTrace \/ (e.priority.ok /\ e.priority.p >= 0)) =>
                 /\ Len(links') = Len(links) + 1
                 /\ links'[Len(links')].Flags = FlagsOfPriority(e))]_vars

\* the later extractor at idx yields a valid context of another trace id whose
\* trace has no sampling priority
DivergentWithoutPriority ==
    /\ idx <= Len(chain) /\ ~ctx.nil
    /\ Let(ResultAt(idx).ctx, LAMBDA e :
          /\ ~e.nil /\ TraceID(e) # TraceID(ctx)
          /\ e.hasTrace /\ ~SamplingPriority(e).ok)

\* C23: Extract never stops without a result, and for a later context of
\* another trace id that has propagated tags and no sampling priority it appends
\* a link of flags 0 and goes on
C23_ExtractCompletes ==
    /\ [](pc # "panic")
    /\ [][(LaterTurn /\ DivergentWithoutPriority) =>
             /\ pc' # "panic"
             /\ links' = Append(links,
                   ExpectedLink(ResultAt(idx).ctx, chain[idx], 0))]_vars

\* C23: Extract has stopped at the Datadog extractor, whose headers carry
\* x-datadog-tags and no x-datadog-sampling-priority
C23_PanicOnTagsWithoutPriority ==
    /\ pc = "panic" /\ DivergentWithoutPriority
    /\ chain[idx] = "datadog"
    /\ HasHeader(carrier.h, traceTagsHeader)
    /\ ~HasHeader(carrier.h, DefaultPriorityHeader)
    /\ ret.ctx.nil /\ ret.err = ErrNone

\* Extract stops without a result only at such a context
PanicOnlyWithoutPriority == pc = "panic" => DivergentWithoutPriority

\* a context has won and the extractor at idx returns an error
LaterError == LaterTurn /\ ResultAt(idx).err # ErrNone

\* C24: the error of an extractor consulted after a context has won changes
\* neither the winning context nor the links, Extract goes on to the next
\* extractor, and it returns the winning trace id without an error
C24_LaterErrorIgnored ==
    /\ [][LaterError =>
             /\ pc' = "loop" /\ idx' = idx + 1
             /\ links' = links
             /\ ctx' = ctx
             /\ ret' = ret]_vars
    /\ []((pc = "done" /\ ~ctx.nil) =>
             /\ ret.err = ErrNone
             /\ TraceID(ret.ctx) = TraceID(ctx)
             /\ ret.ctx.origin = ctx.origin)

\* C24: Datadog has won, the traceparent consulted after it was corrupted, and
\* Extract has returned the Datadog context with no link and no tracestate
C24_Witness ==
    /\ pc = "done" /\ ret.err = ErrNone /\ ~ret.ctx.nil
    /\ Len(chain) >= 2 /\ chain[1] = "datadog" /\ chain[2] = "tracecontext"
    /\ ResultAt(1).err = ErrNone
    /\ ResultAt(2).err = ErrSpanContextCorrupted
    /\ Len(calls) >= 2
    /\ TraceID(ret.ctx) = TraceID(ResultAt(1).ctx)
    /\ SpanID(ret.ctx) = SpanID(ResultAt(1).ctx)
    /\ tracestateHeader \notin DOMAIN ret.ctx.ptags
    /\ \A i \in 1..Len(ret.ctx.spanLinks) :
          ret.ctx.spanLinks[i].Attributes.context_headers # "tracecontext"

\* the same with no traceparent at all
LaterNotFoundIgnored ==
    /\ pc = "done" /\ ret.err = ErrNone /\ ~ret.ctx.nil
    /\ Len(chain) >= 2 /\ chain[1] = "datadog" /\ chain[2] = "tracecontext"
    /\ ResultAt(1).err = ErrNone
    /\ ResultAt(2).err = ErrSpanContextNotFound
    /\ Len(calls) >= 2
    /\ ret.ctx.spanLinks = <<>>

\* the W3C extractor at idx yields the trace id of the context that has won
PropagateTurn ==
    /\ LaterTurn /\ chain[idx] = "tracecontext"
    /\ ~ResultAt(idx).ctx.nil
    /\ TraceID(ResultAt(idx).ctx) = TraceID(ctx)

\* the _dd.p.* propagating tags of c
DDTagsOf(c) ==
    [k \in {x \in DOMAIN c.ptags : HasPrefix(x, <<95, 100, 100, 46, 112, 46>>)} |-> c.ptags[k]]

\* "dd=s:<priority>" and ";o:<origin>" of c, 0 standing for no priority
DDPrefixOf(c) ==
    <<100, 100, 61, 115, 58>> \o Itoa(IF SamplingPriority(c).ok THEN SamplingPriority(c).p ELSE 0)
        \o (IF c.origin = <<>> THEN <<>> ELSE <<59, 111, 58>> \o c.origin)

\* the list-members of ts other than dd=, without the blanks around them
ForeignMembers(ts) ==
    IF ts = <<>> THEN <<>>
    ELSE SelectSeq([i \in 1..Len(Split(ts, 44)) |-> Trim(Split(ts, 44)[i], {32, 9})],
                   LAMBDA m : ~HasPrefix(m, <<100, 100, 61>>))

ReconciledPriority(f, entry) ==
    IF entry.kind # "int" THEN f
    ELSE IF (f = 1 /\ entry.n > 0) \/ (f = 0 /\ entry.n <= 0) THEN entry.n
    ELSE IF f = 1 THEN PriorityAutoKeep
    ELSE PriorityAutoReject

\* Extract has returned the context of the input in
ExtractedFrom(in) ==
    /\ pc = "done" /\ carrier = PriorityCarrier(in)
    /\ ret.err = ErrNone /\ ~ret.ctx.nil

\* C26: the W3C context has the priority s when the sampled flag agrees with
\* the sign of s, auto-keep for flag 1 and s <= 0, auto-reject for flag 0 and
\* s > 0, and the flag when there is no s entry or it is no integer
C26_PriorityReconciled ==
    \A in \in PriorityInputs :
        (pc = "done" /\ carrier = PriorityCarrier(in)) =>
            /\ ret.err = ErrNone
            /\ SamplingPriority(ret.ctx) =
                  [ok |-> TRUE, p |-> ReconciledPriority(in.f, in.s)]

\* C26: flag 1 with s:-1 has given auto-keep
C26_Witness ==
    \E in \in PriorityInputs :
        /\ ExtractedFrom(in)
        /\ in.f = 1 /\ in.s.kind = "int" /\ in.s.n = -1
        /\ SamplingPriority(ret.ctx) = [ok |-> TRUE, p |-> PriorityAutoKeep]

\* flag 0 with s:2 has given auto-reject
RejectedAgainstState ==
    \E in \in PriorityInputs :
        /\ ExtractedFrom(in)
        /\ in.f = 0 /\ in.s.kind = "int" /\ in.s.n = 2
        /\ SamplingPriority(ret.ctx) = [ok |-> TRUE, p |-> PriorityAutoReject]

\* flag 0 with s:-1 and flag 1 with s:2 have given s
StateTaken ==
    \E in \in PriorityInputs :
        /\ ExtractedFrom(in)
        /\ in.s.kind = "int" /\ in.s.n \in {-1, 2}
        /\ SamplingPriority(ret.ctx) = [ok |-> TRUE, p |-> in.s.n]

\* flag 1 with "s:x" has given 1
FlagTaken ==
    \E in \in PriorityInputs :
        /\ ExtractedFrom(in)
        /\ in.f = 1 /\ in.s.kind = "text" /\ in.s.text # <<>>
        /\ SamplingPriority(ret.ctx) = [ok |-> TRUE, p |-> 1]

\* flag 0 and s > 0: a t.dm entry that follows the s entry is not stored
DecisionMakerAfterStateDropped ==
    \A in \in PriorityInputs :
        (/\ pc = "done" /\ carrier = PriorityCarrier(in)
         /\ in.f = 0 /\ in.s.kind = "int" /\ in.s.n > 0 /\ in.dm # "before") =>
            ~hasPropagatingTag(ret.ctx, keyDecisionMaker)

\* flag 0, s > 0 and a t.dm entry after the s entry: Extract has returned
\* auto-reject and no decision maker
DroppedAfterState ==
    \E in \in PriorityInputs :
        /\ ExtractedFrom(in)
        /\ in.f = 0 /\ in.s.kind = "int" /\ in.s.n > 0 /\ in.dm = "after"
        /\ SamplingPriority(ret.ctx) = [ok |-> TRUE, p |-> PriorityAutoReject]
        /\ ~hasPropagatingTag(ret.ctx, keyDecisionMaker)

\* C28: for each of the flags 00 to ff of a well-formed traceparent, Extract
\* returns the context with the least-significant bit of the flags as its
\* sampling priority
C28_PriorityIsLowBit ==
    (pc = "done" /\ WellFormedTraceparent(TraceparentValue)) =>
        /\ ret.err = ErrNone
        /\ SamplingPriority(ret.ctx) = [ok |-> TRUE, p |-> FlagsOf(TraceparentValue) % 2]

\* C28: the flags ff have made Extract return corrupted and no context
C28_AllFlagsSetRejected ==
    /\ pc = "done"
    /\ WellFormedTraceparent(TraceparentValue)
    /\ FlagsOf(TraceparentValue) = 255
    /\ ret.err = ErrSpanContextCorrupted /\ ret.ctx.nil

\* the flags 00 to 7f give their least-significant bit, the flags 80 to ff
\* give corrupted
LowBitBelow80 ==
    (pc = "done" /\ WellFormedTraceparent(TraceparentValue)) =>
        IF FlagsOf(TraceparentValue) < 128
        THEN /\ ret.err = ErrNone
             /\ SamplingPriority(ret.ctx) = [ok |-> TRUE, p |-> FlagsOf(TraceparentValue) % 2]
        ELSE ret.err = ErrSpanContextCorrupted /\ ret.ctx.nil

\* the flags 7f have given auto-keep
SeventyFParsed ==
    /\ pc = "done" /\ FlagsOf(TraceparentValue) = 127
    /\ ret.err = ErrNone
    /\ SamplingPriority(ret.ctx) = [ok |-> TRUE, p |-> PriorityAutoKeep]

\* Extract by the format of in has returned for the carrier of in
ExtractedBy(in) ==
    pc = "done" /\ chain = <<in.format>> /\ carrier = MalformedCarrier(in)

\* C29: in each trace format a malformed trace id or span id gives corrupted
\* and a carrier without the format's headers gives not_found
C29_MalformedIsCorrupted ==
    \A in \in MalformedInputs :
        ExtractedBy(in) =>
            /\ in.kind \in {"trace", "span"} =>
                  ret.err = ErrSpanContextCorrupted /\ ret.ctx.nil
            /\ in.kind = "absent" =>
                  ret.err = ErrSpanContextNotFound /\ ret.ctx.nil

\* C29: B3 multi with the trace id "00000000000000zz" and a well-formed span
\* id has returned not_found
C29_B3TraceIDNotFound ==
    \E in \in MalformedInputs :
        /\ ExtractedBy(in)
        /\ in.format = "b3multi" /\ in.kind = "trace"
        /\ ret.err = ErrSpanContextNotFound /\ ret.ctx.nil

\* the rule holds but for the trace id of B3 multi, which gives not_found
MalformedRuleButB3TraceID ==
    \A in \in MalformedInputs :
        ExtractedBy(in) =>
            CASE in.kind = "valid" -> ret.err = ErrNone /\ ~ret.ctx.nil
              [] in.kind = "absent" -> ret.err = ErrSpanContextNotFound
              [] in.kind = "trace" /\ in.format = "b3multi" ->
                    ret.err = ErrSpanContextNotFound
              [] OTHER -> ret.err = ErrSpanContextCorrupted

\* the malformed span id of B3 multi has given corrupted
B3SpanIDCorrupted ==
    \E in \in MalformedInputs :
        /\ ExtractedBy(in)
        /\ in.format = "b3multi" /\ in.kind = "span"
        /\ ret.err = ErrSpanContextCorrupted

\* the length of the x-datadog-tags value of all the tags of the span
FullTagsLen == EncodedLen(orig.ptags, SortedKeys(DOMAIN orig.ptags), 1)

\* the trace id, parent id and priority headers are written, no error
IDsInjected ==
    /\ ret.err = ErrNone
    /\ HasHeader(carrier.h, DefaultTraceIDHeader)
    /\ HasHeader(carrier.h, DefaultParentIDHeader)
    /\ HasHeader(carrier.h, DefaultPriorityHeader)

\* C30: the x-datadog-tags value written is at most MaxTagsHeaderLen long; when
\* the tags are longer than that no x-datadog-tags header is written and the
\* error inject_max_size is noted; the ids and the priority are written and
\* Inject returns no error
C30_TagsWithinMax ==
    pc = "done" =>
        /\ IDsInjected
        /\ HasHeader(carrier.h, traceTagsHeader) =>
              Len(Header(carrier.h, traceTagsHeader)) <= cfgMaxTagsLen
        /\ FullTagsLen > cfgMaxTagsLen =>
              /\ ~HasHeader(carrier.h, traceTagsHeader)
              /\ ctx.properr = errInjectMaxSize

\* C30: with MaxTagsHeaderLen 10 the 11 characters of _dd.p.dm=-4 are written
C30_TagsLongerThanMax ==
    /\ pc = "done" /\ ret.err = ErrNone
    /\ cfgMaxTagsLen = 10
    /\ HasHeader(carrier.h, traceTagsHeader)
    /\ Len(Header(carrier.h, traceTagsHeader)) = 11
    /\ ctx.properr = <<>>

\* what the code does: the length compared with MaxTagsHeaderLen leaves out
\* the '=' of the tag at hand and the ',' before it, so the value written is
\* the whole of the tags and at most two characters longer than the limit;
\* when nothing is written for tags that exist, inject_max_size is noted
MaxTagsRule ==
    pc = "done" =>
        /\ IDsInjected
        /\ IF HasHeader(carrier.h, traceTagsHeader)
           THEN /\ Len(Header(carrier.h, traceTagsHeader)) = FullTagsLen
                /\ FullTagsLen <= cfgMaxTagsLen + 2
                /\ ctx.properr = <<>>
           ELSE \/ orig.ptags = EmptyMap /\ ctx.properr = <<>>
                \/ /\ ctx.properr = errInjectMaxSize
                   /\ FullTagsLen > cfgMaxTagsLen

\* tags longer than the limit by more than the uncounted characters: no
\* x-datadog-tags, inject_max_size, the ids written
TagsRejected ==
    /\ pc = "done" /\ IDsInjected
    /\ orig.ptags # EmptyMap
    /\ ~HasHeader(carrier.h, traceTagsHeader)
    /\ ctx.properr = errInjectMaxSize

\* the key of the list-member m is dd
IsDDMember(m) == HasPrefix(Trim(m, {32, 9}), <<100, 100, 61>>)

\* C31: the composed tracestate starts with the dd= member, holds no other
\* member of key dd, and goes on with the members of the old tracestate that
\* are not of key dd, in their order, without the blanks and tabs around them
C31_OneDDMemberFirst ==
    (pc = "done" /\ ret.err = ErrNone) =>
        /\ HasPrefix(WrittenMembers[1], <<100, 100, 61>>)
        /\ \A i \in 2..Len(WrittenMembers) : ~IsDDMember(WrittenMembers[i])
        /\ Tail(WrittenMembers) = ForeignMembers(propagatingTag(orig, tracestateHeader))

\* C31: the old tracestate "foo=1, dd=s:1" has been written back with its
\* dd= member after the new one
C31_SecondDDMember ==
    /\ pc = "done" /\ ret.err = ErrNone
    /\ propagatingTag(orig, tracestateHeader) = <<102, 111, 111, 61, 49, 44, 32, 100, 100, 61, 115, 58, 49>>
    /\ Len(WrittenMembers) = 3
    /\ HasPrefix(WrittenMembers[1], <<100, 100, 61>>)
    /\ WrittenMembers[3] = <<100, 100, 61, 115, 58, 49>>

\* what the code does: a member is left out when its text as split, blanks
\* included, starts with dd=
ComposedMembers ==
    (pc = "done" /\ ret.err = ErrNone) =>
        /\ HasPrefix(WrittenMembers[1], <<100, 100, 61>>)
        /\ Tail(WrittenMembers) =
              Let(propagatingTag(orig, tracestateHeader), LAMBDA old :
                 IF old = <<>> THEN <<>>
                 ELSE Let(SelectSeq(Split(Trim(old, {32, 9}), 44),
                                    LAMBDA m : ~HasPrefix(m, <<100, 100, 61>>)),
                          LAMBDA kept : [i \in 1..Len(kept) |-> Trim(kept[i], {32, 9})]))

\* the old tracestate "dd=s:1,foo=1,dd=s:2" has been written back without
\* its two dd= members
BothDDMembersDropped ==
    /\ pc = "done" /\ ret.err = ErrNone
    /\ propagatingTag(orig, tracestateHeader) = <<100, 100, 61, 115, 58, 49, 44, 102, 111, 111, 61, 49, 44, 100, 100, 61, 115, 58, 50>>
    /\ Tail(WrittenMembers) = <<<<102, 111, 111, 61, 49>>>>

\* the carrier holds the headers of the second format of the chain
OtherPresent == ExtractOf(chain[2], carrier).err = ErrNone

\* C32: a traceparent of span id zero is not found by the W3C extractor, and
\* in normal mode the chain that starts with tracecontext returns the context
\* of the format that follows it
C32_ZeroSpanNotFound ==
    /\ w3cExtract(carrier) = Failed(ErrSpanContextNotFound)
    /\ (pc = "done" /\ ~onlyExtractFirst) =>
          IF OtherPresent
          THEN /\ ret.err = ErrNone
               /\ ret.ctx = ExtractOf(chain[2], carrier).ctx
               /\ calls = <<"tracecontext", chain[2]>>
          ELSE ret = Failed(ErrSpanContextNotFound)

\* C32: in normal mode the Datadog context of trace id 1 has been returned
\* from a carrier whose traceparent has the span id zero and the flags "zz"
C32_Witness ==
    /\ pc = "done" /\ ~onlyExtractFirst
    /\ chain = <<"tracecontext", "datadog">>
    /\ Header(carrier.h, traceparentHeader)
          = <<48, 48, 45>> \o PadHex(1, 16) \o PadHex(2, 16) \o <<45>> \o PadHex(0, 16)
               \o <<45, 122, 122>>
    /\ ret.err = ErrNone
    /\ ret.ctx.traceID.lower = 1 /\ ret.ctx.spanID = 1

\* in extract-first mode the same carrier is not found
ZeroSpanFirstOnly ==
    /\ pc = "done" /\ onlyExtractFirst
    /\ OtherPresent
    /\ ret = Failed(ErrSpanContextNotFound)
    /\ calls = <<"tracecontext">>

\* the carrier holds a baggage header and none of the headers that the trace
\* formats of the chain read
OnlyBaggageHeader ==
    /\ carrier.valid
    /\ HasHeader(carrier.h, DefaultBaggageHeader)
    /\ \A i \in 1..Len(chain) :
          IsTraceFormat(i) => ResultAt(i).err = ErrSpanContextNotFound

\* C33: in extract-first mode, with a trace format in the chain, the context
\* returned is the one of the first trace format, with the baggage that this
\* format extracted and nothing from the baggage header, and a carrier with a
\* baggage header only is not found
C33_FirstOnlyWithoutBaggage ==
    (onlyExtractFirst /\ pc = "done" /\ FirstTraceFormat # 0) =>
        /\ ret.err = ErrNone =>
              /\ ResultAt(FirstTraceFormat).err = ErrNone
              /\ ret.ctx = ResultAt(FirstTraceFormat).ctx
              /\ ret.ctx.baggage = ResultAt(FirstTraceFormat).ctx.baggage
              /\ ~ret.ctx.baggageOnly
        /\ ret.err # ErrNone => ret = Failed(ResultAt(FirstTraceFormat).err)
        /\ OnlyBaggageHeader => ret = Failed(ErrSpanContextNotFound)

\* C33: baggage is configured first and its items are pending when the
\* Datadog context is returned without them
C33_Witness ==
    /\ onlyExtractFirst /\ pc = "done"
    /\ Len(chain) >= 2 /\ chain[1] = "baggage" /\ chain[2] = "datadog"
    /\ DOMAIN pendingBaggage # {}
    /\ ret.err = ErrNone
    /\ ~ret.ctx.nil
    /\ DOMAIN ret.ctx.baggage = {}
    /\ calls = <<"baggage", "datadog">>

\* baggage is configured first, its items are pending and no other header is
\* in the carrier: not found
BaggageOnlyNotFound ==
    /\ onlyExtractFirst /\ pc = "done"
    /\ Len(chain) >= 2 /\ chain[1] = "baggage"
    /\ OnlyBaggageHeader
    /\ DOMAIN pendingBaggage # {}
    /\ ret = Failed(ErrSpanContextNotFound)

\* the entries of the dd= member written, "dd=" taken off
WrittenEntries == Split(Drop(WrittenMembers[1], 3), 59)

\* the s, o and p entries that the context orig is to give
ExpectedHead ==
    <<(<<115, 58>> \o Itoa(SamplingPriority(orig).p))>>
        \o (IF orig.origin # <<>> THEN <<(<<111, 58>> \o orig.origin)>> ELSE <<>>)
        \o (IF ~orig.isRemote THEN <<(<<112, 58>> \o PadHex(orig.spanID, 16))>>
            ELSE IF orig.reparentID # <<>> THEN <<(<<112, 58>> \o orig.reparentID)>>
            ELSE <<>>)

\* C34: the dd= member lists s, then o, then p, then the t. entries, one for
\* each _dd.p. tag; p is the span id of the context in 16 hex digits when the
\* context is not remote, its reparent id when it is remote and has one, and
\* is left out when it is remote and has none
C34_MemberOrderAndParent ==
    (pc = "done" /\ ret.err = ErrNone) =>
        /\ HasPrefix(WrittenMembers[1], <<100, 100, 61>>)
        /\ Len(WrittenEntries) = Len(ExpectedHead) + Cardinality(DOMAIN orig.ptags)
        /\ SubSeq(WrittenEntries, 1, Len(ExpectedHead)) = ExpectedHead
        /\ {WrittenEntries[i] : i \in (Len(ExpectedHead) + 1)..Len(WrittenEntries)}
              = {<<116, 46>> \o Drop(k, Len(ddTagPrefix)) \o <<58>> \o orig.ptags[k] :
                    k \in DOMAIN orig.ptags}

\* C34: a local context with a reparent id, an origin and two tags has been
\* written with its own span id as p, between o and the t. entries
C34_Witness ==
    /\ pc = "done" /\ ret.err = ErrNone
    /\ ~orig.isRemote /\ orig.reparentID # <<>> /\ orig.origin # <<>>
    /\ Len(WrittenEntries) = 5
    /\ WrittenEntries[2] = <<111, 58, 114, 117, 109>>
    /\ WrittenEntries[3] = <<112, 58>> \o PadHex(2, 16)
    /\ HasPrefix(WrittenEntries[4], <<116, 46>>)

\* a remote context with a reparent id: p is the reparent id
RemoteParentWritten ==
    /\ pc = "done" /\ ret.err = ErrNone
    /\ orig.isRemote /\ orig.reparentID # <<>> /\ orig.origin = <<>>
    /\ WrittenEntries[2] = <<112, 58>> \o orig.reparentID

\* a remote context without a reparent id: no p entry
RemoteParentOmitted ==
    /\ pc = "done" /\ ret.err = ErrNone
    /\ orig.isRemote /\ orig.reparentID = <<>>
    /\ Cardinality(DOMAIN orig.ptags) = 2
    /\ \A i \in 1..Len(WrittenEntries) : ~HasPrefix(WrittenEntries[i], <<112, 58>>)

\* the value of _dd.p.tid in the x-datadog-tags header of the carrier
IncomingTID ==
    CHOOSE v \in IncomingTIDs :
        \E withDM \in BOOLEAN :
            Header(carrier.h, traceTagsHeader) = TIDTagsHeader(v, withDM)

\* exactly 16 digits out of 0-9 and a-f
SixteenLowerHex(v) ==
    /\ Len(v) = 16
    /\ \A i \in 1..16 : v[i] \in (48..57) \cup (97..102)

\* C35: after an Inject that returned nil the _dd.p.tid tag of the context is
\* the upper half of its trace id in 16 hex digits, and is not set when the
\* upper half is zero, whatever the tag was before; Datadog Extract of a
\* _dd.p.tid that is not 16 lower-case hex digits returns the context without
\* the tag and without an upper half
C35_TIDFollowsTraceID ==
    /\ (pc = "done" /\ ~orig.nil /\ ret.err = ErrNone) =>
          IF orig.traceID.upper # 0
          THEN /\ hasPropagatingTag(ctx, keyTraceID128)
               /\ propagatingTag(ctx, keyTraceID128) = PadHex(orig.traceID.upper, 16)
          ELSE ~hasPropagatingTag(ctx, keyTraceID128)
    /\ (pc = "done" /\ orig.nil /\ ~SixteenLowerHex(IncomingTID)) =>
          /\ ret.err = ErrNone
          /\ ~hasPropagatingTag(ret.ctx, keyTraceID128)
          /\ ret.ctx.traceID = [upper |-> 0, lower |-> 1]
          /\ ret.ctx.spanID = 2

\* C35: a context whose trace id has no upper half and whose tag said 5 has
\* been injected by both propagators and has no tag any more
C35_Witness ==
    /\ pc = "done" /\ ret.err = ErrNone
    /\ calls = <<"datadog", "tracecontext">>
    /\ orig.traceID.upper = 0
    /\ propagatingTag(orig, keyTraceID128) = PadHex(5, 16)
    /\ ~hasPropagatingTag(ctx, keyTraceID128)

\* a stale tag replaced by the upper half 1
StaleTIDReplaced ==
    /\ pc = "done" /\ ~orig.nil /\ ret.err = ErrNone
    /\ orig.traceID.upper = 1
    /\ propagatingTag(orig, keyTraceID128) = <<120, 121, 122>>
    /\ propagatingTag(ctx, keyTraceID128) = PadHex(1, 16)

\* the upper-case value has been removed, the other tag kept
UpperCaseTIDRemoved ==
    /\ pc = "done" /\ orig.nil /\ ret.err = ErrNone
    /\ IncomingTID = <<48, 48, 48, 48, 48, 48, 48, 48, 48, 48, 48, 48, 48, 48, 48, 65>>
    /\ DOMAIN ret.ctx.ptags = {keyDecisionMaker}
    /\ ret.ctx.traceID.upper = 0

\* a value of 16 lower-case hex digits is kept and gives the upper half
ValidTIDKept ==
    (pc = "done" /\ orig.nil /\ SixteenLowerHex(IncomingTID)) =>
        /\ ret.err = ErrNone
        /\ propagatingTag(ret.ctx, keyTraceID128) = IncomingTID
        /\ PadHex(ret.ctx.traceID.upper, 16) = IncomingTID

ValidTIDExtracted ==
    /\ pc = "done" /\ orig.nil /\ ret.err = ErrNone
    /\ ret.ctx.traceID.upper = 10

\* the header name is in the carrier and does not hold a decimal number, with
\* a sign for the priority
NotDecimal(name, signed) ==
    /\ HasHeader(carrier.h, name)
    /\ Let(Header(carrier.h, name), LAMBDA v :
       Let(IF signed /\ v # <<>> /\ v[1] \in {43, 45} THEN Tail(v) ELSE v, LAMBDA d :
          d = <<>> \/ \E i \in 1..Len(d) : d[i] \notin 48..57))

\* the number in the header name, zero when the header is not in the carrier
HeaderNumber(name) ==
    IF HasHeader(carrier.h, name) THEN ParseUint(Header(carrier.h, name), 10).v ELSE 0

OriginIsSynthetics ==
    HasHeader(carrier.h, originHeader) /\ Header(carrier.h, originHeader) = synthetics

CorruptedHeaders ==
    \/ NotDecimal(DefaultTraceIDHeader, FALSE)
    \/ NotDecimal(DefaultParentIDHeader, FALSE)
    \/ NotDecimal(DefaultPriorityHeader, TRUE)

\* C36: Datadog extraction is corrupted when the trace id, the parent id or
\* the priority header is there and is no decimal number; otherwise not found
\* when the trace id is zero or absent, or the parent id is zero or absent and
\* the origin is not synthetics; otherwise it returns the context, of span id
\* zero when the parent id is zero or absent and the origin is synthetics
C36_DatadogExtractOutcome ==
    pc = "done" =>
        IF CorruptedHeaders THEN ret = Failed(ErrSpanContextCorrupted)
        ELSE IF HeaderNumber(DefaultTraceIDHeader) = 0
                 \/ (HeaderNumber(DefaultParentIDHeader) = 0 /\ ~OriginIsSynthetics)
        THEN ret = Failed(ErrSpanContextNotFound)
        ELSE /\ ret.err = ErrNone
             /\ ret.ctx.traceID.lower = HeaderNumber(DefaultTraceIDHeader)
             /\ ret.ctx.spanID = HeaderNumber(DefaultParentIDHeader)

\* C36: no x-datadog-trace-id header, the parent id 3 and _dd.p.tid in
\* x-datadog-tags: a context of trace id (1, 0) has been returned
C36_ContextWithoutTraceID ==
    /\ pc = "done"
    /\ ~HasHeader(carrier.h, DefaultTraceIDHeader)
    /\ HasHeader(carrier.h, DefaultParentIDHeader)
    /\ ~HasHeader(carrier.h, DefaultPriorityHeader)
    /\ ret.err = ErrNone
    /\ ret.ctx.traceID = [upper |-> 1, lower |-> 0]
    /\ ret.ctx.spanID = 3

\* what the code does: the trace id is missing when the header and the upper
\* half that _dd.p.tid gives are both zero
DatadogExtractRule ==
    pc = "done" =>
        IF CorruptedHeaders THEN ret = Failed(ErrSpanContextCorrupted)
        ELSE IF (HeaderNumber(DefaultTraceIDHeader) = 0
                    /\ ~HasHeader(carrier.h, traceTagsHeader))
                 \/ (HeaderNumber(DefaultParentIDHeader) = 0 /\ ~OriginIsSynthetics)
        THEN ret = Failed(ErrSpanContextNotFound)
        ELSE /\ ret.err = ErrNone
             /\ ret.ctx.traceID.lower = HeaderNumber(DefaultTraceIDHeader)
             /\ ret.ctx.traceID.upper = IF HasHeader(carrier.h, traceTagsHeader) THEN 1 ELSE 0
             /\ ret.ctx.spanID = HeaderNumber(DefaultParentIDHeader)

\* the synthetics context of trace id 3 and span id 0
SyntheticsWithoutParent ==
    /\ pc = "done" /\ ret.err = ErrNone
    /\ ~HasHeader(carrier.h, DefaultParentIDHeader)
    /\ ret.ctx.origin = synthetics
    /\ ret.ctx.traceID.lower = 3 /\ ret.ctx.spanID = 0

\* a priority that is no number, with ids that are
PriorityCorrupted ==
    /\ pc = "done" /\ ret = Failed(ErrSpanContextCorrupted)
    /\ ~NotDecimal(DefaultTraceIDHeader, FALSE) /\ ~NotDecimal(DefaultParentIDHeader, FALSE)
    /\ HeaderNumber(DefaultTraceIDHeader) = 3 /\ HeaderNumber(DefaultParentIDHeader) = 3

\* datadog, tracecontext, baggage, and b3 when cfg.B3 is set
DefaultChain ==
    IF cfgB3 THEN <<"datadog", "tracecontext", "baggage", "b3multi">>
    ELSE <<"datadog", "tracecontext", "baggage">>

UnknownNameWithB3 ==
    /\ pc = "done"
    /\ ps = <<102, 111, 111>>
    /\ cfgB3
    /\ chain = <<"b3multi">>

\* without cfg.B3 the style "datadog,foo,baggage" has given the two formats
UnknownNameSkipped ==
    /\ pc = "done"
    /\ ps = <<100, 97, 116, 97, 100, 111, 103, 44, 102, 111, 111, 44, 98, 97, 103, 103, 97, 103, 101>>
    /\ ~cfgB3
    /\ chain = <<"datadog", "baggage">>

\* the x-datadog-tags header of the carrier
IncomingTags == Header(carrier.h, traceTagsHeader)

\* the context of trace id 1 and span id 2 has been returned
IDsExtracted ==
    /\ ret.err = ErrNone
    /\ ret.ctx.traceID = [upper |-> 0, lower |-> 1]
    /\ ret.ctx.spanID = 2

\* C38: an x-datadog-tags header of more than 512 characters gives the context
\* of the other headers with _dd.propagation_error = extract_max_size and no
\* propagating tag; a header that does not decode gives the context with
\* _dd.propagation_error = decoding_error
C38_TagsHeaderRejected ==
    pc = "done" =>
        /\ Len(IncomingTags) > 512 =>
              /\ IDsExtracted
              /\ ret.ctx.properr = errExtractMaxSize
              /\ propagatingTagsLen(ret.ctx) = 0
        /\ (Len(IncomingTags) <= 512 /\ IncomingTags \in UndecodableTags) =>
              /\ IDsExtracted
              /\ ret.ctx.properr = errDecodingError

\* C38: a header of 513 characters that would decode has been refused
C38_Witness ==
    /\ pc = "done"
    /\ IncomingTags = TagsOfLen(513)
    /\ IDsExtracted
    /\ ret.ctx.properr = errExtractMaxSize
    /\ DOMAIN ret.ctx.ptags = {}

\* "hello=world,=" has been refused, and hello is not stored
UndecodableRefused ==
    /\ pc = "done"
    /\ IncomingTags = <<104, 101, 108, 108, 111, 61, 119, 111, 114, 108, 100, 44, 61>>
    /\ IDsExtracted
    /\ ret.ctx.properr = errDecodingError
    /\ DOMAIN ret.ctx.ptags = {}

\* a header that decodes and is not over the limit is stored without error
DecodableStored ==
    (pc = "done" /\ IncomingTags \in DecodableTags) =>
        /\ IDsExtracted
        /\ ret.ctx.properr = <<>>
        /\ propagatingTagsLen(ret.ctx) = 1

\* the header of 512 characters has been stored
LongestTagsStored ==
    /\ pc = "done"
    /\ Len(IncomingTags) = 512
    /\ IDsExtracted
    /\ ret.ctx.properr = <<>>
    /\ Len(propagatingTag(ret.ctx, ddTagPrefix \o <<97>>)) = 504

\* the function named f collapses the runs of the rune r
Collapsible(f, r) == DisallowedFn(f, r).v >= 0 /\ DisallowedFn(f, r).drop

\* str with every run of collapsible runes replaced by one underscore and
\* every other rune by what the function named f gives for it
Collapsed(f, str) ==
    Let(SelectSeq([i \in 1..Len(str) |-> i],
                  LAMBDA i : ~(Collapsible(f, str[i]) /\ i > 1 /\ Collapsible(f, str[i - 1]))),
        LAMBDA kept :
           [k \in 1..Len(kept) |->
               IF Collapsible(f, str[kept[k]]) THEN 95 ELSE DisallowedFn(f, str[kept[k]]).v])

\* C39: between two calls of Mutate the state of the mutator is cleared, and
\* what a call returned is the string with each run of collapsible runes
\* replaced by one underscore, whatever the mutator was given before
C39_MutatorStateless ==
    /\ sm.fn = "" => ~sm.n
    /\ \A k \in 1..Len(sm.rs) : sm.rs[k] = Collapsed(sm.todo[k].fn, sm.todo[k].s)

\* C39: the mutator has been given a string that ends with two control
\* characters and then a control character alone, and has returned "a_" and
\* then "_"
C39_Witness ==
    /\ sm.fn = "" /\ Len(sm.rs) = 2
    /\ sm.todo[1].s = <<97, 1, 1>> /\ sm.todo[2].s = <<1>>
    /\ sm.rs = <<(<<97, 95>>), (<<95>>)>>

\* a comma between two control characters ends the run: three underscores
RunEndedByComma ==
    /\ sm.fn = "" /\ Len(sm.rs) >= 1
    /\ sm.todo[1].s = <<1, 44, 1>>
    /\ sm.rs[1] = <<95, 95, 95>>

\* a letter between two control characters ends the run: "_a_"
RunEndedByLetter ==
    /\ sm.fn = "" /\ Len(sm.rs) >= 1
    /\ sm.todo[1].s = <<1, 97, 1>>
    /\ sm.rs[1] = <<95, 97, 95>>

=============================================================================
